---- MODULE Spec2Model ----
(***************************************************************************)
(* Model of scripts/lup_interest_reporting.py: the aggregation of overlay  *)
(* rows into the statistics hierarchy (LUP_Overlaps.overlay_values), the   *)
(* parsing of Range rule cells of the "Additional Fields" sheet            *)
(* (LUP_Overlaps.__init__) and the Range classification of the layout      *)
(* (LUP_Overlaps.write_excel).                                             *)
(*                                                                         *)
(* Python values are tagged records so that None, strings and numbers can  *)
(* be compared with each other.  Numbers of the rule parser are fixed      *)
(* point, in units of 1/Scale.                                             *)
(***************************************************************************)
EXTENDS Integers, Sequences, FiniteSets, TLC

VARIABLES
    given_id_fields,       \* history: the id_fields argument of LU_Value.__init__
    given_assess_fields,   \* history: the assess_fields argument of LU_Value.__init__
    no_id,                 \* LU_Value.no_id
    id_fields,             \* LU_Value.id_fields
    assessment_fields,     \* LU_Value.assessment_fields
    fld_aoi,               \* LUP_Overlaps.fld_aoi (None when the parameter is '#')
    ds_type,               \* LU_Value.data_type, from arcpy.Describe(union_fc).shapeType
    union_fc,              \* the rows of the merged intersect/erase feature class
    pc,                    \* position of overlay_values
    cur,                   \* index of the next row of the running SearchCursor
    lst_intersecting_aus,  \* list built by the first cursor
    bl_no_rows,            \* flag lowered by the second cursor
    aoi,                   \* LU_Value.aoi: partition key -> AOI object
    keys1,                 \* history: outcome of the key construction of the first cursor, per row
    keys2,                 \* history: outcome of the key construction of the second cursor, per row
    run,                   \* number of the engine instance at work
    prev_aoi,              \* history: LU_Value.aoi at the end of the previous instance's run
    parse_pc,              \* "schema" while __init__ reads rule cells, "layout" once write_excel
                           \* classifies, "crashed" after an uncaught exception of __init__,
                           \* "aborted" after an exception of write_excel
    value_type,            \* FieldSchema.value_type of the row's field
    col,                   \* number of rule cells of the row read so far
    cell_value,            \* the rule cell read last
    low_val,               \* local low_val of __init__, kept from cell to cell
    high_val,              \* local high_val of __init__, kept from cell to cell
    dict_values,           \* FieldSchema.dict_values of the row's field, in insertion order
    ce_value,              \* the attribute value write_excel styles
    cell_style,            \* "regular", "rule" for a style made from val_style, or
                           \* "raised" when making the style raised an exception
    val_style,             \* the ValueSchema write_excel selected
    app_pc,                \* position of run_app: the method of LUP_Overlaps to run next,
                           \* "sheets" inside the loop of write_excel, "exited" at the end
    exit_status,           \* exit status of the process, None while it runs
    dict_lup_values,       \* LUP_Overlaps.dict_lup_values: the categories with the names
                           \* of their datasets, both in insertion order
    lup_aoi,               \* LU_Value.aoi of the datasets other than the reported one
    other_fields_schema,   \* LU_Value.other_fields_schema of the dataset, in insertion order
    dict_aoi_area,         \* LUP_Overlaps.dict_aoi_area, in insertion order
    aoi_total,             \* LUP_Overlaps.aoi_total
    fc_net_aoi,            \* the features of the net AOI: SHAPE@AREA and AOI field value
    data_type,             \* LU_Value.data_type, None until line 654 sets it
    warned,                \* overlay_values logged a no-overlap warning for the dataset
    lst_sheets,            \* lst_sheets of write_excel
    wb,                    \* the sheets of the openpyxl workbook, None before it is made
    xls_output,            \* the sheets of the file at xls_output, None while there is no file
    completed,             \* history: each sheet as it was when its emission ended
    failed_at,             \* history: index of the sheet whose emission raised, 0 for none
    stats_done,            \* history: LU_Value.aoi when overlay_values returned
    xls_schema,            \* the state of the two tables of the schema workbook
    lup_df                 \* the rows of the 'LUP Indicators' sheet: CATEGORY, DATASET_NAME

\* the fields of the LU_Value object that its constructor sets
valueVars == <<given_id_fields, given_assess_fields, no_id, id_fields, assessment_fields>>

aggVars == <<valueVars, fld_aoi, ds_type, union_fc, pc, cur,
             lst_intersecting_aus, bl_no_rows, aoi, keys1, keys2, run, prev_aoi>>

schemaVars == <<parse_pc, value_type, col, cell_value, low_val, high_val, dict_values,
                ce_value, cell_style, val_style>>

\* the schema workbook as the run finds it
tableVars == <<xls_schema, lup_df>>

reportVars == <<app_pc, exit_status, dict_lup_values, lup_aoi, other_fields_schema,
                dict_aoi_area, aoi_total, fc_net_aoi, data_type, warned, lst_sheets, wb, xls_output, completed,
                failed_at, stats_done, tableVars>>

vars == <<aggVars, schemaVars, reportVars>>

(***************************************************************************)
(* Bounds                                                                  *)
(***************************************************************************)
MaxRecs == 2
MaxRuns == 2
MaxRules == 3

(***************************************************************************)
(* Python values                                                           *)
(***************************************************************************)
None == [t |-> "null"]
S(s) == [t |-> "str", v |-> s]
N(n) == [t |-> "num", v |-> n]
\* a string whose characters the program inspects, as a sequence of characters
Txt(cs) == [t |-> "txt", v |-> cs]
\* a local variable not assigned yet
Unbound == [t |-> "unbound"]

\* bool(x)
Truthy(x) ==
    CASE x.t = "null" -> FALSE
      [] x.t = "str"  -> x.v # ""
      [] x.t = "num"  -> x.v # 0
      [] x.t = "txt"  -> x.v # <<>>

\* str(x), for the values an id field holds
Str(x) == IF x.t = "null" THEN "None" ELSE x.v

\* pd.isnull(x)
IsNull(x) == x.t = "null"

\* ' '.join(lst)
RECURSIVE Join(_)
Join(lst) ==
    IF Len(lst) = 0 THEN ""
    ELSE IF Len(lst) = 1 THEN lst[1]
    ELSE lst[1] \o " " \o Join(Tail(lst))

\* x in lst
InList(x, lst) == \E k \in 1..Len(lst) : lst[k] = x

EmptyMap == [x \in {} |-> 0]
Get(m, k, default) == IF k \in DOMAIN m THEN m[k] ELSE default
Put(m, k, val) == [x \in (DOMAIN m) \cup {k} |-> IF x = k THEN val ELSE m[x]]

(***************************************************************************)
(* Constants of the program                                                *)
(***************************************************************************)
str_overall == "AOI Overall"
fld_id_aoi == "FID_net_aoi"
fld_id_lu == "FID_lu"
AllUnits == "All Units"
Unnamed == "Unnamed"
\* FieldSchema of an ancillary attribute (lines 300-304, 363)
FieldSchema(name, label, other_fields, vt, rules) ==
    [name |-> name, label |-> label, other_fields |-> other_fields, value_type |-> vt,
     dict_values |-> rules]

\* the attribute RISK without rules
RiskField == FieldSchema("RISK", "Risk", <<>>, "", <<>>)

\* the fields of other_fields_schema of the dataset, with their other_fields
\* (lines 680-684)
RECURSIVE FieldsOf(_)
FieldsOf(schema) ==
    IF schema = <<>> THEN <<>>
    ELSE <<Head(schema).name>> \o Head(schema).other_fields \o FieldsOf(Tail(schema))

lst_additional == FieldsOf(other_fields_schema)

(***************************************************************************)
(* LU_Value.__init__: the id and assessment fields default to each other   *)
(***************************************************************************)
\* the id fields kept as given, without the default
LUValueIdFieldsAsGiven(id_given, assess_given) == id_given

LUValueIdFields(id_given, assess_given) ==
    IF id_given = <<>> /\ assess_given # <<>> THEN assess_given ELSE id_given

LUValueAssessmentFields(id_given, assess_given) ==
    IF id_given = <<>> /\ assess_given # <<>> THEN assess_given
    ELSE IF assess_given = <<>> /\ id_given # <<>> THEN id_given
    ELSE assess_given

LUValueNoId(id_given, assess_given) == assess_given = <<>> /\ id_given = <<>>

\* self.aoi = defaultdict(AOI) of a new LU_Value; old is the dictionary of
\* the instance constructed before it
LUValueAoiShared(old) == old
LUValueAoi(old) == EmptyMap

\* AOI.__init__
NewAOI == [total_area |-> 0, total_count |-> 0, assessment_units |-> EmptyMap]

\* Assessment_Unit.__init__
NewAssessmentUnit ==
    [total_area |-> 0, total_count |-> 0, aoi_area |-> 0, au_name |-> "",
     other_fields |-> EmptyMap]

(***************************************************************************)
(* The rows of union_fc the cursors read (lst_fields)                      *)
(***************************************************************************)
Range(seq) == {seq[k] : k \in 1..Len(seq)}

\* the id values of the rows: blocks lie within districts, so a row names a
\* district and a block, a district alone, or neither
IdRows(ids) ==
    LET both == {("DISTRICT" :> None) @@ ("BLOCK" :> S("")),
                 ("DISTRICT" :> S("N")) @@ ("BLOCK" :> S("")),
                 ("DISTRICT" :> S("N")) @@ ("BLOCK" :> S("7"))}
    IN {[f \in Range(ids) |-> r[f]] : r \in both}

\* SHAPE@AREA (square metres) and SHAPE@LENGTH per geometry type
ShapeRows(type) ==
    IF type = "Polygon"
    THEN {("SHAPE@AREA" :> N(a)) @@ ("SHAPE@LENGTH" :> N(400)) : a \in {10000, 20000}}
    ELSE IF type = "Polyline"
    THEN {("SHAPE@AREA" :> N(0)) @@ ("SHAPE@LENGTH" :> N(3))}
    ELSE {("SHAPE@AREA" :> N(0)) @@ ("SHAPE@LENGTH" :> N(0))}

\* the membership fields, the ancillary attribute and the AOI field of a row:
\* rows of the intersection carry the AOI feature's id and its field value,
\* rows of the erase carry neither (null after the merge); a row of the AOI
\* outside the dataset carries -1 as the dataset's feature id
MemberRows(aoifld) ==
    LET part(vals) == IF Truthy(aoifld) THEN {(aoifld.v :> g) : g \in vals}
                      ELSE {EmptyMap}
        inside == {(fld_id_aoi :> N(1)) @@ (fld_id_lu :> N(1)) @@ ("RISK" :> r) @@ g :
                     r \in {None, S("high")}, g \in part({S("P1"), S("P2")})}
        aoionly == {(fld_id_aoi :> N(1)) @@ (fld_id_lu :> l) @@ ("RISK" :> None) @@ g :
                     l \in {N(-1)}, g \in part({S("P1"), S("P2")})}
        dsonly == {(fld_id_aoi :> a) @@ (fld_id_lu :> N(1)) @@ ("RISK" :> None) @@ g :
                     a \in {None}, g \in part({None})}
    IN inside \cup aoionly \cup dsonly

Rows == {s @@ m @@ k : s \in ShapeRows(ds_type), m \in MemberRows(fld_aoi),
                       k \in IdRows(id_fields)}

(***************************************************************************)
(* overlay_values: the two cursors over union_fc                           *)
(***************************************************************************)
\* the non-empty id values of a row, first cursor (lines 693-696)
RECURSIVE Pass1Components(_, _)
Pass1Components(row, flds) ==
    IF flds = <<>> THEN <<>>
    ELSE (IF Str(row[Head(flds)]) \notin {"", "None"} THEN <<Str(row[Head(flds)])>> ELSE <<>>)
         \o Pass1Components(row, Tail(flds))

\* the non-empty id values of a row, second cursor (lines 720-722)
RECURSIVE Pass2ComponentsKeepEmpty(_, _)
Pass2ComponentsKeepEmpty(row, flds) ==
    IF flds = <<>> THEN <<>>
    ELSE (IF Str(row[Head(flds)]) \notin {"None"} THEN <<Str(row[Head(flds)])>> ELSE <<>>)
         \o Pass2ComponentsKeepEmpty(row, Tail(flds))
RECURSIVE Pass2Components(_, _)
Pass2Components(row, flds) ==
    IF flds = <<>> THEN <<>>
    ELSE (IF Str(row[Head(flds)]) \notin {"", "None"} THEN <<Str(row[Head(flds)])>> ELSE <<>>)
         \o Pass2Components(row, Tail(flds))

NoKey == [skip |-> TRUE, au |-> ""]
Key(au) == [skip |-> FALSE, au |-> au]

\* first cursor: lst_au of the row, or the row is skipped (lines 693-699)
Pass1Key(row) ==
    LET lst_au == Pass1Components(row, id_fields)
    IN IF lst_au = <<>> THEN NoKey ELSE Key(Join(lst_au))

\* second cursor: lst_au of the row, or the row is skipped (lines 716-726)
Pass2Key(row) ==
    LET lst_au == (IF id_fields # <<>> THEN <<>> ELSE <<AllUnits>>)
                  \o Pass2Components(row, id_fields)
    IN IF lst_au = <<>> THEN NoKey ELSE Key(Join(lst_au))

\* the name of the assessment unit (lines 717, 733-739)
RECURSIVE NameComponents(_, _)
NameComponents(row, flds) ==
    IF flds = <<>> THEN <<>>
    ELSE (IF Str(row[Head(flds)]) \notin {"", "None"} THEN <<Str(row[Head(flds)])>>
          ELSE <<Unnamed>>)
         \o NameComponents(row, Tail(flds))

AuName(row) ==
    Join((IF assessment_fields # <<>> THEN <<>> ELSE <<AllUnits>>)
         \o NameComponents(row, assessment_fields))

\* first cursor: the row lies in the AOI (line 700)
Pass1InAoi(row) == Truthy(row[fld_id_aoi]) /\ row[fld_id_aoi] # N(-1)

\* second cursor: the feature is within the area of interest (line 749)
InAoi(row) ==
    Truthy(row[fld_id_aoi]) /\ row[fld_id_aoi] # N(-1) /\ ~IsNull(row[fld_id_aoi])

\* second cursor: the feature is within the lup value (line 758)
InLupAlways(row) == TRUE
InLup(row) == row[fld_id_lu] # N(-1) /\ ~IsNull(row[fld_id_lu])

\* the measure of a row (lines 709-712)
Shp(row) ==
    IF ds_type = "Point" THEN 1
    ELSE IF Truthy(row["SHAPE@AREA"]) THEN row["SHAPE@AREA"].v \div 10000
    ELSE row["SHAPE@LENGTH"].v

\* the AOI field value of a row (line 715)
AoiOf(row) == IF ~Truthy(fld_aoi) THEN None ELSE row[fld_aoi.v]

\* the unit is kept by the second cursor (line 729)
KeepEveryUnit(au, lst) == TRUE
KeepUnit(au, lst) == ~(~InList(au, lst) /\ au # AllUnits)

\* defaultdict access: aoi[p].assessment_units[au]
Unit(st, p, au) == Get(Get(st, p, NewAOI).assessment_units, au, NewAssessmentUnit)
SetUnit(st, p, au, u) ==
    Put(st, p, [Get(st, p, NewAOI) EXCEPT !.assessment_units = Put(@, au, u)])

\* the unit of the Overall partition named, its total left as it is
OverallNameOnly(st, au, au_name, shp) ==
    SetUnit(st, str_overall, au, [Unit(st, str_overall, au) EXCEPT !.au_name = au_name])

\* lines 742-743
OverallTotals(st, au, au_name, shp) ==
    SetUnit(st, str_overall, au,
            [Unit(st, str_overall, au) EXCEPT !.au_name = au_name,
                                              !.total_area = @ + shp])

\* lines 745-747
PartitionNameOnly(st, p, au, au_name, shp) ==
    SetUnit(st, p, au, [Unit(st, p, au) EXCEPT !.au_name = au_name])
PartitionTotals(st, p, au, au_name, shp) ==
    SetUnit(st, p, au,
            [Unit(st, p, au) EXCEPT !.au_name = au_name,
                                    !.total_area = @ + shp,
                                    !.total_count = @ + 1])

\* the record of a partition counted, its measure not added
AoiTotalsCountOnly(st, p, shp) ==
    Put(st, p, [Get(st, p, NewAOI) EXCEPT !.total_count = @ + 1])

\* lines 752-753 and 755-756
AoiTotals(st, p, shp) ==
    Put(st, p, [Get(st, p, NewAOI) EXCEPT !.total_area = @ + shp,
                                          !.total_count = @ + 1])

\* the ancillary values captured from a row (lines 762-763, 768-769)
RECURSIVE Capture(_, _, _)
Capture(other, row, flds) ==
    IF flds = <<>> THEN other
    ELSE Capture(Put(other, Head(flds),
                     IF Truthy(row[Head(flds)]) THEN row[Head(flds)] ELSE S("")),
                 row, Tail(flds))

\* lines 760-763 and 766-769
Overlap(st, p, au, shp, row) ==
    SetUnit(st, p, au,
            [Unit(st, p, au) EXCEPT !.aoi_area = @ + shp,
                                    !.other_fields = Capture(@, row, lst_additional)])

\* the amount line 743 adds to the unit's total_area
TotalInAoiOnly(row) == IF InAoi(row) THEN Shp(row) ELSE 0
TotalShp(row) == Shp(row)

\* lines 741-769 for a row of a kept unit
Pass2Stats(st, row, au) ==
    LET shp == Shp(row)
        p == AoiOf(row)
        name == AuName(row)
        s1 == OverallTotals(st, au, name, TotalShp(row))
        s2 == IF Truthy(p) THEN PartitionTotals(s1, p.v, au, name, shp) ELSE s1
        s3 == IF InAoi(row) THEN AoiTotals(s2, str_overall, shp) ELSE s2
        s4 == IF InAoi(row) /\ Truthy(p) THEN AoiTotals(s3, p.v, shp) ELSE s3
        s5 == IF InAoi(row) /\ InLup(row) THEN Overlap(s4, str_overall, au, shp, row) ELSE s4
        s6 == IF InAoi(row) /\ InLup(row) /\ Truthy(p) THEN Overlap(s5, p.v, au, shp, row)
              ELSE s5
    IN s6

\* one row of the first cursor (lines 691-701)
Pass1Step(lst, row) ==
    LET k == Pass1Key(row)
    IN IF ~k.skip /\ Pass1InAoi(row) THEN Append(lst, k.au) ELSE lst

\* one row of the second cursor (lines 706-769)
Pass2Step(st, row, lst) ==
    LET k == Pass2Key(row)
    IN IF ~k.skip /\ KeepUnit(k.au, lst) THEN Pass2Stats(st, row, k.au) ELSE st

\* the first cursor over all rows (lines 688-701)
RECURSIVE Pass1All(_, _)
Pass1All(lst, rows) ==
    IF rows = <<>> THEN lst ELSE Pass1All(Pass1Step(lst, Head(rows)), Tail(rows))

\* the second cursor over all rows (lines 705-769)
RECURSIVE Pass2All(_, _, _)
Pass2All(st, rows, lst) ==
    IF rows = <<>> THEN st ELSE Pass2All(Pass2Step(st, Head(rows), lst), Tail(rows), lst)

(***************************************************************************)
(* The Range rules of the 'Additional Fields' sheet (LUP_Overlaps.__init__,*)
(* lines 306-363).  A cell is a sequence of characters; a float is a       *)
(* number of 1/Scale units.                                                *)
(***************************************************************************)
Scale == 10000

Digits == {"0", "1", "2", "3", "4", "5", "6", "7", "8", "9"}

DigitVal == ("0" :> 0) @@ ("1" :> 1) @@ ("2" :> 2) @@ ("3" :> 3) @@ ("4" :> 4) @@
            ("5" :> 5) @@ ("6" :> 6) @@ ("7" :> 7) @@ ("8" :> 8) @@ ("9" :> 9)

AllDigits(cs) == \A k \in 1..Len(cs) : cs[k] \in Digits

RECURSIVE DigitsValue(_)
DigitsValue(cs) ==
    IF cs = <<>> THEN 0
    ELSE DigitsValue(SubSeq(cs, 1, Len(cs) - 1)) * 10 + DigitVal[cs[Len(cs)]]

RECURSIVE Pow10(_)
Pow10(n) == IF n = 0 THEN 1 ELSE 10 * Pow10(n - 1)

\* the digits after the decimal point, in 1/Scale units
FracValue(cs) == (DigitsValue(cs) * Scale) \div Pow10(Len(cs))

\* the characters float() reads after an optional sign: digits, at most one
\* point, at least one digit
Unsigned(cs) == IF cs # <<>> /\ cs[1] \in {"+", "-"} THEN Tail(cs) ELSE cs

Points(cs) == {k \in 1..Len(cs) : cs[k] = "."}

\* float(text) raises ValueError unless the text is a decimal literal
FloatOk(cs) ==
    LET u == Unsigned(cs)
        pts == Points(u)
    IN /\ Cardinality(pts) <= 1
       /\ \A k \in 1..Len(u) : u[k] \in Digits \cup {"."}
       /\ \E k \in 1..Len(u) : u[k] \in Digits

\* float(text), in 1/Scale units
FloatVal(cs) ==
    LET u == Unsigned(cs)
        pts == Points(u)
        p == IF pts = {} THEN Len(u) + 1 ELSE CHOOSE k \in pts : TRUE
        mag == DigitsValue(SubSeq(u, 1, p - 1)) * Scale + FracValue(SubSeq(u, p + 1, Len(u)))
    IN IF cs # <<>> /\ cs[1] = "-" THEN 0 - mag ELSE mag

\* text.replace(' ', '')
RemoveSpaces(cs) == SelectSeq(cs, LAMBDA c : c # " ")

\* sub in text
Contains(cs, sub) ==
    \E p \in 1..(Len(cs) - Len(sub) + 1) : SubSeq(cs, p, p + Len(sub) - 1) = sub

\* text.replace(sub, '')
RECURSIVE Remove(_, _)
Remove(cs, sub) ==
    IF Len(cs) < Len(sub) THEN cs
    ELSE IF SubSeq(cs, 1, Len(sub)) = sub
         THEN Remove(SubSeq(cs, Len(sub) + 1, Len(cs)), sub)
         ELSE <<cs[1]>> \o Remove(Tail(cs), sub)

\* text.split('-')
RECURSIVE Split(_)
Split(cs) ==
    LET dashes == {k \in 1..Len(cs) : cs[k] = "-"}
    IN IF dashes = {} THEN <<cs>>
       ELSE LET p == CHOOSE k \in dashes : \A j \in dashes : k <= j
            IN <<SubSeq(cs, 1, p - 1)>> \o Split(SubSeq(cs, p + 1, Len(cs)))

\* \d* from position p: the position after the digits
RECURSIVE SkipDigits(_, _)
SkipDigits(cs, p) ==
    IF p <= Len(cs) /\ cs[p] \in Digits THEN SkipDigits(cs, p + 1) ELSE p

\* -?\d+\.?\d* from position p: the position after the match, 0 for no match
MatchNumber(cs, p) ==
    LET q == IF p <= Len(cs) /\ cs[p] = "-" THEN p + 1 ELSE p
        r == SkipDigits(cs, q)
    IN IF r = q THEN 0
       ELSE SkipDigits(cs, IF r <= Len(cs) /\ cs[r] = "." THEN r + 1 ELSE r)

\* -?\d+\.?\d*--?\d+\.?\d* from position p: the position after the match, 0
\* for no match.  The first number ends where its digits end, whether or not
\* a point follows them, and only then can the separating '-' follow.
MatchRange(cs, p) ==
    LET a == MatchNumber(cs, p)
    IN IF a = 0 \/ a > Len(cs) \/ cs[a] # "-" THEN 0 ELSE MatchNumber(cs, a + 1)

\* the first element of re.findall(pattern, text), <<>> when the list is empty
FirstRange(cs) ==
    LET starts == {p \in 1..Len(cs) : MatchRange(cs, p) # 0}
    IN IF starts = {} THEN <<>>
       ELSE LET p == CHOOSE k \in starts : \A j \in starts : k <= j
            IN SubSeq(cs, p, MatchRange(cs, p) - 1)

OpChars == ("<=" :> <<"<", "=">>) @@ (">=" :> <<">", "=">>) @@
           ("<" :> <<"<">>) @@ (">" :> <<">">>)

\* the if/elif chain of lines 329-344 in another order
FindOperatorBareFirst(range_val) ==
    IF Contains(range_val, OpChars["<"]) THEN "<"
    ELSE IF Contains(range_val, OpChars[">"]) THEN ">"
    ELSE IF Contains(range_val, OpChars["<="]) THEN "<="
    ELSE IF Contains(range_val, OpChars[">="]) THEN ">="
    ELSE ""

\* the if/elif chain of lines 329-344: the operator found, "" for none
FindOperator(range_val) ==
    IF Contains(range_val, OpChars["<="]) THEN "<="
    ELSE IF Contains(range_val, OpChars[">="]) THEN ">="
    ELSE IF Contains(range_val, OpChars["<"]) THEN "<"
    ELSE IF Contains(range_val, OpChars[">"]) THEN ">"
    ELSE ""

\* lines 317-344: low_val, high_val and range_operator before the conversion;
\* lo and hi are the values the locals hold from the cell before
ParseBounds(cell, lo, hi) ==
    LET range_val == RemoveSpaces(cell)
        rng == FirstRange(range_val)
        op == FindOperator(range_val)
    IN IF rng # <<>>
       THEN [low |-> Txt(Split(rng)[1]), high |-> Txt(Split(rng)[2]), op |-> None]
       ELSE IF op \in {"<=", "<"}
       THEN [low |-> None, high |-> Txt(Remove(range_val, OpChars[op])), op |-> S(op)]
       ELSE IF op \in {">=", ">"}
       THEN [low |-> Txt(Remove(range_val, OpChars[op])), high |-> None, op |-> S(op)]
       ELSE [low |-> lo, high |-> hi, op |-> None]

Raised == [t |-> "raised"]

\* lines 347-348: None if not x else float(x) if '%' not in x else
\* float(x.replace('%',''))/100.  An unassigned local raises UnboundLocalError,
\* '%' not in <float> raises TypeError, float() of other text raises ValueError.
Convert(x) ==
    IF x = Unbound THEN Raised
    ELSE IF ~Truthy(x) THEN None
    ELSE IF x.t # "txt" THEN Raised
    ELSE IF ~Contains(x.v, <<"%">>)
         THEN IF FloatOk(x.v) THEN N(FloatVal(x.v)) ELSE Raised
         ELSE LET y == Remove(x.v, <<"%">>)
              IN IF FloatOk(y) THEN N(FloatVal(y) \div 100) ELSE Raised

\* ValueSchema of a rule cell, with the cell text that keys it (lines 311,
\* 351-353); its style objects are copies of the cell's (lines 356-360)
ValueSchema(key, lo, hi, op) ==
    [key |-> key, range_low |-> lo, range_high |-> hi, range_operator |-> op,
     style_font |-> "cell"]

\* ValueSchema() as constructed (lines 1335-1344): the bounds are 0 and the
\* style attributes are the classes Font, Alignment, Border, PatternFill
DefaultValueSchema(key) ==
    [key |-> key, range_low |-> N(0), range_high |-> N(0), range_operator |-> None,
     style_font |-> "Font"]

\* fld_schema.dict_values[cell_value] = cell_schema (line 363): a key that is
\* present keeps its place
SetRule(rules, rule) ==
    IF \E k \in 1..Len(rules) : rules[k].key = rule.key
    THEN [k \in 1..Len(rules) |-> IF rules[k].key = rule.key THEN rule ELSE rules[k]]
    ELSE Append(rules, rule)

(***************************************************************************)
(* The rule cells a Range row may hold                                     *)
(***************************************************************************)
\* operator cells: an operator, a number, an optional percent sign; val is
\* the number written, in 1/Scale units
OpForms == {
    [sym |-> <<"<", "=">>, op |-> "<="],
    [sym |-> <<">", "=">>, op |-> ">="],
    [sym |-> <<"<">>,      op |-> "<"],
    [sym |-> <<">">>,      op |-> ">"] }

NumForms == {
    [txt |-> <<"1", "0">>,      val |-> 10 * Scale, pct |-> FALSE],
    [txt |-> <<"2", "5", "%">>, val |-> 25 * Scale, pct |-> TRUE] }

\* ">=20", ">0" and "<= 5": spaces are removed before the cell is read
MoreOpCells == {
    [text |-> <<">", "=", "2", "0">>,  op |-> ">=", val |-> 20 * Scale, pct |-> FALSE],
    [text |-> <<">", "0">>,           op |-> ">",  val |-> 0,          pct |-> FALSE],
    [text |-> <<"<", "=", " ", "5">>, op |-> "<=", val |-> 5 * Scale,  pct |-> FALSE] }

OpCells == {[text |-> o.sym \o n.txt, op |-> o.op, val |-> n.val, pct |-> n.pct] :
               o \in OpForms, n \in NumForms} \cup MoreOpCells

\* range cells: low and high are the numbers written, in 1/Scale units
RangeCells == {
    [text |-> <<"1", "0", "-", "2", "0">>,           low |-> 10 * Scale, high |-> 20 * Scale],
    [text |-> <<"0", ".", "5", "-", "1", ".", "2">>, low |-> 5000,       high |-> 12000],
    [text |-> <<"0", "-", "1", "0">>,                low |-> 0,          high |-> 10 * Scale],
    [text |-> <<"-", "5", "-", "1", "0">>,           low |-> 0 - 5 * Scale, high |-> 10 * Scale],
    [text |-> <<"1", "0", "-", "-", "5">>,           low |-> 10 * Scale, high |-> 0 - 5 * Scale] }

\* a cell that is neither
MalformedCell == <<"n", "/", "a">>

Cells == {c.text : c \in OpCells} \cup {c.text : c \in RangeCells}
             \cup {MalformedCell}

\* the attribute values write_excel meets: 0, 5, 9.99, 10, 15.5, 20
CeValues == {N(0), N(5 * Scale), N(99900), N(10 * Scale), N(155000), N(20 * Scale)}

(***************************************************************************)
(* The Range classifier of write_excel (lines 1115-1157)                   *)
(***************************************************************************)
\* line 1137 with the upper end open
ClosedRangeOpenHigh(val_schema, v) ==
    val_schema.range_low.v <= v.v /\ v.v < val_schema.range_high.v

\* line 1137
ClosedRange(val_schema, v) ==
    val_schema.range_low.v <= v.v /\ v.v <= val_schema.range_high.v

\* lines 1136-1148: the loop breaks at this rule
Breaks(val_schema, v) ==
    IF Truthy(val_schema.range_low) /\ Truthy(val_schema.range_high)
    THEN ClosedRange(val_schema, v)
    ELSE IF ~Truthy(val_schema.range_low) /\ Truthy(val_schema.range_high)
    THEN \/ val_schema.range_operator = S("<=") /\ v.v <= val_schema.range_high.v
         \/ val_schema.range_operator = S("<") /\ v.v < val_schema.range_high.v
    ELSE IF Truthy(val_schema.range_low) /\ ~Truthy(val_schema.range_high)
    THEN \/ val_schema.range_operator = S(">=") /\ v.v >= val_schema.range_low.v
         \/ val_schema.range_operator = S(">") /\ v.v > val_schema.range_low.v
    ELSE FALSE

\* the loop with a rule of no style for the value no rule breaks at
RECURSIVE RangeLoopUnstyled(_, _, _)
RangeLoopUnstyled(rules, k, v) ==
    IF k > Len(rules) THEN ValueSchema(<<>>, None, None, None)
    ELSE IF Breaks(rules[k], v) THEN rules[k]
    ELSE RangeLoopUnstyled(rules, k + 1, v)

\* lines 1134-1149: val_schema when the loop ends, by break or by exhaustion
RECURSIVE RangeLoop(_, _, _)
RangeLoop(rules, k, v) ==
    IF k = Len(rules) \/ Breaks(rules[k], v) THEN rules[k] ELSE RangeLoop(rules, k + 1, v)

NoStyle == ValueSchema(<<>>, None, None, None)

\* the rule cells of a Discrete row, "high" and "low", and the attribute values
\* styled with them: the strings 'high', 'low' and ''
DiscreteCells == {<<"h", "i", "g", "h">>, <<"l", "o", "w">>}
DiscreteValues == {Txt(<<"h", "i", "g", "h">>), Txt(<<"l", "o", "w">>), Txt(<<>>)}

\* line 1130: ce_schema.dict_values[ce_value]; dict_values is a
\* defaultdict(ValueSchema) (line 1319), so a missing key is given a new
\* ValueSchema and stays in the dictionary
DiscreteLookup(rules, v) ==
    IF \E k \in 1..Len(rules) : rules[k].key = v.v
    THEN [val_style |-> rules[CHOOSE k \in 1..Len(rules) : rules[k].key = v.v],
          dict_values |-> rules]
    ELSE [val_style |-> DefaultValueSchema(v.v),
          dict_values |-> Append(rules, DefaultValueSchema(v.v))]

\* create_style_copy (lines 1153-1155, 1448-1462): NamedStyle.font accepts a
\* Font object; given the class Font of a ValueSchema never filled from a cell
\* it raises TypeError
CreateStyleCopyRaises(val_schema) == val_schema.style_font # "cell"

\* lines 1115-1155 for one attribute value v of a field of type vt with the
\* rules given: the style of the cell, the ValueSchema selected and the rules
\* of the field afterwards
StyleValue(vt, rules, v, old_style) ==
    IF ~Truthy(v) \/ vt \notin {"Discrete", "Range"}
    THEN [cell_style |-> "regular", val_style |-> old_style, dict_values |-> rules]
    ELSE LET found == IF vt = "Discrete" THEN DiscreteLookup(rules, v)
                      ELSE [val_style |-> RangeLoop(rules, 1, v), dict_values |-> rules]
         IN [cell_style |-> IF CreateStyleCopyRaises(found.val_style) THEN "raised"
                            ELSE "rule",
             val_style |-> found.val_style,
             dict_values |-> found.dict_values]

SchemaInitFor(vt) ==
    /\ parse_pc = "schema"
    /\ value_type = vt
    /\ col = 0
    /\ cell_value = <<>>
    /\ low_val = Unbound
    /\ high_val = Unbound
    /\ dict_values = <<>>
    /\ ce_value = None
    /\ cell_style = "regular"
    /\ val_style = NoStyle

SchemaInit == SchemaInitFor("Range")

\* the state of the run outside the report: the dataset of the schema with its
\* attribute RISK, no AOI area read and no workbook yet
ReportInit(at) ==
    /\ app_pc = at
    /\ exit_status = None
    /\ lup_df = <<[CATEGORY |-> "Water", DATASET_NAME |-> "Streams"]>>
    /\ dict_lup_values = <<[lup |-> "Water", datasets |-> <<"Streams">>]>>
    /\ lup_aoi = EmptyMap
    /\ other_fields_schema = <<RiskField>>
    /\ dict_aoi_area = <<>>
    /\ aoi_total = 0
    /\ fc_net_aoi = <<>>
    /\ data_type = None
    /\ warned = FALSE
    /\ lst_sheets = <<>>
    /\ wb = None
    /\ xls_output = None
    /\ completed = <<>>
    /\ failed_at = 0
    /\ stats_done = EmptyMap
    /\ xls_schema = "readable"

\* LU_Value.__init__ (lines 1248-1256) with the lists given
LUValue(id_arg, assess_arg) ==
    /\ given_id_fields = id_arg
    /\ given_assess_fields = assess_arg
    /\ id_fields = LUValueIdFields(id_arg, assess_arg)
    /\ assessment_fields = LUValueAssessmentFields(id_arg, assess_arg)
    /\ no_id = LUValueNoId(id_arg, assess_arg)

(***************************************************************************)
(* Initial state: a dataset of the schema, its overlay not yet produced    *)
(***************************************************************************)
Init ==
    /\ \E given \in {<<>>, <<"DISTRICT">>, <<"DISTRICT", "BLOCK">>} : LUValue(given, <<>>)
    /\ \E aoi_field \in {"#", "REGION"} :
          fld_aoi = IF aoi_field # "#" THEN S(aoi_field) ELSE None
    /\ ds_type \in {"Polygon", "Polyline", "Point"}
    /\ union_fc = <<>>
    /\ pc = "union"
    /\ cur = 1
    /\ lst_intersecting_aus = <<>>
    /\ bl_no_rows = TRUE
    /\ aoi = LUValueAoi(EmptyMap)
    /\ keys1 = <<>>
    /\ keys2 = <<>>
    /\ run = 1
    /\ prev_aoi = EmptyMap
    /\ SchemaInit
    /\ ReportInit("overlay_values")

\* the geometry engine adds a row to union_fc (lines 642-648)
UnionRow ==
    /\ pc = "union"
    /\ Len(union_fc) < MaxRecs
    /\ \E row \in Rows : union_fc' = Append(union_fc, row)
    /\ UNCHANGED <<valueVars, fld_aoi, ds_type, pc, cur,
                   lst_intersecting_aus, bl_no_rows, aoi, keys1, keys2, run, prev_aoi, schemaVars, reportVars>>

\* the first cursor is opened (lines 688-690)
OpenPass1 ==
    /\ pc = "union"
    /\ pc' = "pass1"
    /\ cur' = 1
    /\ lst_intersecting_aus' = <<>>
    /\ UNCHANGED <<valueVars, fld_aoi, ds_type, union_fc,
                   bl_no_rows, aoi, keys1, keys2, run, prev_aoi, schemaVars, reportVars>>

\* one row of the first cursor (lines 691-701)
Pass1Row ==
    /\ pc = "pass1"
    /\ cur <= Len(union_fc)
    /\ LET row == union_fc[cur]
           k == Pass1Key(row)
       IN /\ keys1' = Append(keys1, k)
          /\ lst_intersecting_aus' = Pass1Step(lst_intersecting_aus, row)
    /\ cur' = cur + 1
    /\ UNCHANGED <<valueVars, fld_aoi, ds_type, union_fc, pc,
                   bl_no_rows, aoi, keys2, run, prev_aoi, schemaVars, reportVars>>

\* the first cursor is exhausted, the second is opened (lines 702-705)
OpenPass2 ==
    /\ pc = "pass1"
    /\ cur > Len(union_fc)
    /\ pc' = "pass2"
    /\ cur' = 1
    /\ bl_no_rows' = TRUE
    /\ UNCHANGED <<valueVars, fld_aoi, ds_type, union_fc,
                   lst_intersecting_aus, aoi, keys1, keys2, run, prev_aoi, schemaVars, reportVars>>

\* one row of the second cursor (lines 706-769)
Pass2Row ==
    /\ pc = "pass2"
    /\ cur <= Len(union_fc)
    /\ LET row == union_fc[cur]
           k == Pass2Key(row)
       IN /\ keys2' = Append(keys2, k)
          /\ aoi' = Pass2Step(aoi, row, lst_intersecting_aus)
    /\ bl_no_rows' = FALSE
    /\ cur' = cur + 1
    /\ UNCHANGED <<valueVars, fld_aoi, ds_type, union_fc, pc,
                   lst_intersecting_aus, keys1, run, prev_aoi, schemaVars, reportVars>>

\* the second cursor is exhausted (lines 772-774)
CloseOverlay ==
    /\ pc = "pass2"
    /\ cur > Len(union_fc)
    /\ pc' = "done"
    /\ UNCHANGED <<valueVars, fld_aoi, ds_type, union_fc, cur,
                   lst_intersecting_aus, bl_no_rows, aoi, keys1, keys2, run, prev_aoi, schemaVars, reportVars>>

\* a new engine is constructed for the same schema (LUP_Overlaps.__init__,
\* LU_Value.__init__) and its overlay_values runs over the same rows
Reinitialise ==
    /\ pc = "done"
    /\ run < MaxRuns
    /\ run' = run + 1
    /\ prev_aoi' = aoi
    /\ aoi' = Pass2All(LUValueAoi(aoi), union_fc, Pass1All(<<>>, union_fc))
    /\ UNCHANGED <<valueVars, fld_aoi, ds_type, union_fc, pc, cur,
                   lst_intersecting_aus, bl_no_rows, keys1, keys2, schemaVars, reportVars>>

Next ==
    \/ UnionRow
    \/ OpenPass1
    \/ Pass1Row
    \/ OpenPass2
    \/ Pass2Row
    \/ CloseOverlay

Spec == Init /\ [][Next]_vars

NextRerun == Next \/ Reinitialise

SpecRerun == Init /\ [][NextRerun]_vars

(***************************************************************************)
(* Reading a Range row and styling values with it                          *)
(***************************************************************************)
\* the dataset whose rules are read: one of the initial states of Init
InitRange ==
    /\ LUValue(<<>>, <<>>)
    /\ fld_aoi = None
    /\ ds_type = "Polygon"
    /\ union_fc = <<>>
    /\ pc = "union"
    /\ cur = 1
    /\ lst_intersecting_aus = <<>>
    /\ bl_no_rows = TRUE
    /\ aoi = LUValueAoi(EmptyMap)
    /\ keys1 = <<>>
    /\ keys2 = <<>>
    /\ run = 1
    /\ prev_aoi = EmptyMap
    /\ \E vt \in {"Range", "Discrete"} : SchemaInitFor(vt)
    /\ ReportInit("init")

\* one rule cell of the row (lines 307-363); an exception of lines 347-348 is
\* not caught and ends the program
ParseCell ==
    /\ parse_pc = "schema"
    /\ col < MaxRules
    /\ \E cell \in (IF value_type = "Range" THEN Cells ELSE DiscreteCells) :
          LET b == ParseBounds(cell, low_val, high_val)
              lo == Convert(b.low)
              hi == Convert(b.high)
          IN /\ cell_value' = cell
             /\ IF value_type # "Range"
                THEN /\ parse_pc' = "schema"
                     /\ dict_values' = SetRule(dict_values, ValueSchema(cell, N(0), N(0), None))
                     /\ UNCHANGED <<low_val, high_val>>
                ELSE IF lo = Raised \/ hi = Raised
                THEN /\ parse_pc' = "crashed"
                     /\ UNCHANGED <<low_val, high_val, dict_values>>
                ELSE /\ parse_pc' = "schema"
                     /\ low_val' = lo
                     /\ high_val' = hi
                     /\ dict_values' = SetRule(dict_values, ValueSchema(cell, lo, hi, b.op))
    /\ col' = col + 1
    /\ UNCHANGED <<aggVars, reportVars, value_type, ce_value, cell_style, val_style>>

\* write_excel styles one attribute value of the field (lines 1112-1157); an
\* exception is caught at line 1209 and ends write_excel
Classify ==
    /\ parse_pc \in {"schema", "layout"}
    /\ dict_values # <<>>
    /\ \E v \in (IF value_type = "Range" THEN CeValues ELSE DiscreteValues) :
          LET st == StyleValue(value_type, dict_values, v, val_style)
          IN /\ ce_value' = v
             /\ cell_style' = st.cell_style
             /\ val_style' = st.val_style
             /\ dict_values' = st.dict_values
             /\ parse_pc' = IF st.cell_style = "raised" THEN "aborted" ELSE "layout"
    /\ UNCHANGED <<aggVars, reportVars, value_type, col, cell_value, low_val, high_val>>

NextRange ==
    \/ ParseCell
    \/ Classify

SpecRange == InitRange /\ [][NextRange]_vars

(***************************************************************************)
(* The run: run_app (lines 29-47), the schema tables (lines 217-294),      *)
(* setup_aoi (lines 380-414) and overlay_values as one step                *)
(***************************************************************************)
str_summary == "Summary"
LupName == "Water"
DsName == "Streams"

\* the status of a process that ends by sys.exit(arg) or by reaching the end
\* of the script: 0 without an argument
ExitStatus(arg) == IF arg = None THEN N(0) ELSE arg

\* the ways the two schema tables can be: readable, the 'LUP Indicators' sheet
\* missing (line 222), a required column missing (line 282), the 'Additional
\* Fields' sheet missing (line 292)
SchemaStates == {"readable", "no indicator sheet", "no required column",
                 "no additional sheet"}

\* __init__ ends the process for the first table alone
SchemaHaltsFirstTable(schema_state) ==
    schema_state \in {"no indicator sheet", "no required column"}

\* __init__ ends the process by sys.exit() (lines 224, 285, 294)
SchemaHalts(schema_state) == schema_state # "readable"

\* ordered dictionaries with a default: d[key] += amount
RECURSIVE AddTo(_, _, _)
AddTo(d, key, amount) ==
    IF d = <<>> THEN <<[key |-> key, val |-> amount]>>
    ELSE IF Head(d).key = key
         THEN <<[key |-> key, val |-> Head(d).val + amount]>> \o Tail(d)
         ELSE <<Head(d)>> \o AddTo(Tail(d), key, amount)

DictKeys(d) == [k \in 1..Len(d) |-> d[k].key]

\* d[key] of a defaultdict(int) whose key is present or not
DictGet(d, key) ==
    IF \E k \in 1..Len(d) : d[k].key = key
    THEN d[CHOOSE k \in 1..Len(d) : d[k].key = key].val
    ELSE 0

\* the features of net_aoi, of 200, 100 and 50 ha, with their AOI field value
\* when an AOI field was given
AoiFeatures ==
    IF Truthy(fld_aoi)
    THEN {<<>>,
          <<[area |-> 2000000, part |-> "P1"]>>,
          <<[area |-> 2000000, part |-> "P1"], [area |-> 2000000, part |-> "P2"]>>,
          <<[area |-> 2000000, part |-> "P1"], [area |-> 1000000, part |-> "P2"],
            [area |-> 500000, part |-> "P1"]>>}
    ELSE {<<>>, <<[area |-> 2000000, part |-> ""]>>}

\* lines 409-414 with the key of the feature's partition added before the key
\* 'AOI Overall'
RECURSIVE AoiAreasPartitionFirst(_, _)
AoiAreasPartitionFirst(d, features) ==
    IF features = <<>> THEN d
    ELSE LET ha == Head(features).area \div 10000
             d1 == IF Truthy(fld_aoi) THEN AddTo(d, Head(features).part, ha) ELSE d
         IN AoiAreasPartitionFirst(AddTo(d1, str_overall, ha), Tail(features))

\* line 412: aoi_total after the features
RECURSIVE AoiTotal(_, _)
AoiTotal(total, features) ==
    IF features = <<>> THEN total
    ELSE AoiTotal(total + Head(features).area \div 10000, Tail(features))

\* lines 409-414
RECURSIVE AoiAreas(_, _)
AoiAreas(d, features) ==
    IF features = <<>> THEN d
    ELSE LET ha == Head(features).area \div 10000
             d1 == AddTo(d, str_overall, ha)
             d2 == IF Truthy(fld_aoi) THEN AddTo(d1, Head(features).part, ha) ELSE d1
         IN AoiAreas(d2, Tail(features))

\* the rows of union_fc of the reported dataset.  The features of district N
\* (block 7): 25 (hectares, metres) inside each AOI feature and 75 outside the
\* AOI; the feature of district S (block 8): 25 inside the last AOI feature
ReportShape(ha) ==
    IF ds_type = "Polygon"
    THEN ("SHAPE@AREA" :> N(ha * 10000)) @@ ("SHAPE@LENGTH" :> N(400))
    ELSE IF ds_type = "Polyline"
    THEN ("SHAPE@AREA" :> N(0)) @@ ("SHAPE@LENGTH" :> N(ha))
    ELSE ("SHAPE@AREA" :> N(0)) @@ ("SHAPE@LENGTH" :> N(0))

ReportIds(district, block) ==
    LET both == ("DISTRICT" :> S(district)) @@ ("BLOCK" :> S(block))
    IN [f \in Range(id_fields \o assessment_fields) |-> both[f]]

ReportRows ==
    LET keys == DictKeys(dict_aoi_area)
        part(p) == IF Truthy(fld_aoi) THEN (fld_aoi.v :> p) ELSE EmptyMap
        inside(p) == ReportShape(25) @@ (fld_id_aoi :> N(1)) @@ (fld_id_lu :> N(1))
                       @@ ("RISK" :> S("high")) @@ ("TREND" :> S("up")) @@ part(p)
        outside == ReportShape(75) @@ (fld_id_aoi :> None) @@ (fld_id_lu :> N(1))
                     @@ ("RISK" :> None) @@ ("TREND" :> None) @@ part(None)
        north == {inside(S(keys[k])) : k \in {j \in 1..Len(keys) : keys[j] # str_overall}}
                   \cup (IF Truthy(fld_aoi) THEN {} ELSE {inside(None)})
                   \cup {outside}
        south == {inside(IF Truthy(fld_aoi) THEN S(keys[Len(keys)]) ELSE None)}
    IN IF dict_aoi_area = <<>> THEN {}
       ELSE {m @@ ReportIds("N", "7") : m \in north} \cup {m @@ ReportIds("S", "8") : m \in south}

\* the row sequences of at most n rows
RECURSIVE RowSeqs(_, _)
RowSeqs(rows, n) ==
    IF n = 0 THEN {<<>>}
    ELSE LET shorter == RowSeqs(rows, n - 1)
         IN shorter \cup {Append(s, r) : s \in shorter, r \in rows}

\* the schemas of the dataset's ancillary attributes: none, RISK with the
\* Discrete rule 'high', RISK with the Discrete rule 'low', RISK and TREND
\* without rules under the labels 'Risk' and 'Trend', and the same two fields
\* both under the label 'Risk'
ReportSchemas == {
    <<>>,
    <<FieldSchema("RISK", "Risk", <<>>, "Discrete", <<ValueSchema("high", N(0), N(0), None)>>)>>,
    <<FieldSchema("RISK", "Risk", <<>>, "Discrete", <<ValueSchema("low", N(0), N(0), None)>>)>>,
    <<RiskField, FieldSchema("TREND", "Trend", <<>>, "", <<>>)>>,
    <<RiskField, FieldSchema("TREND", "Risk", <<>>, "", <<>>)>> }

(***************************************************************************)
(* The report: write_excel (lines 931-1216) and write_summary (lines       *)
(* 777-925).  A sheet is its title and the values of its cells by <<row,   *)
(* column>>; styles, merged ranges, borders and column widths are left out.*)
(***************************************************************************)
Ref(c, r) == [col |-> c, row |-> r]

\* f'=${column}${row}/${column}${row}'
Formula(num, den) == [t |-> "formula", num |-> num, den |-> den]

NotApplicable == S("N/A")

\* f'No overlap with {ds}', as the marker and the dataset it names
NoOverlap(ds) == [t |-> "no overlap", ds |-> ds]

\* lines 160-174
standard_poly_headers ==
    <<"Assessment Unit", "Area (ha) of Assessment Unit",
      "Area (ha) of Assessment Unit overlap with AOI",
      "% of Assessment Unit that Overlaps with AOI",
      "% of AOI that Overlaps with Assessment Unit">>
standard_line_headers ==
    <<"Assessment Unit", "Length (m) of Assessment Unit",
      "Length (m) of Assessment Unit overlap with AOI",
      "% of Assessment Unit that Overlaps with AOI",
      "% of AOI that Overlaps with Assessment Unit">>
standard_point_headers ==
    <<"Assessment Unit", "Total Count of Assessment Unit", "Count within AOI",
      "% of Assessment Unit that Overlaps with AOI",
      "% of AOI that Overlaps with Assessment Unit">>
summary_headers ==
    <<"Number of Assessment Units", "Total Area (ha), Length (m) or Count of Features",
      "Area (ha), Length (m) or Count of Assessment Unit with AOI",
      "% of Assessment Unit that Overlaps with AOI",
      "% of AOI that Overlaps with Assessment Unit">>

\* lines 1053-1054
standard_headers(type) ==
    IF type = S("Point") THEN standard_point_headers
    ELSE IF type = S("Polyline") THEN standard_line_headers
    ELSE standard_poly_headers

\* ws.merge_cells(start_row, start_column, end_row, end_column)
Merge(r1, c1, r2, c2) ==
    [start_row |-> r1, start_column |-> c1, end_row |-> r2, end_column |-> c2]

\* lst.index(x)
IndexOf(lst, x) == (CHOOSE k \in 1..Len(lst) : lst[k] = x /\ \A j \in 1..(k - 1) : lst[j] # x) - 1

\* ws.cell(row, column, value) for each <<row, column, value>> of the list
RECURSIVE WriteCells(_, _)
WriteCells(cells, lst) ==
    IF lst = <<>> THEN cells
    ELSE WriteCells(Put(cells, <<Head(lst)[1], Head(lst)[2]>>, Head(lst)[3]), Tail(lst))

\* the title rows both kinds of sheet start with (lines 789-811, 981-1003)
TitleBlock ==
    WriteCells(EmptyMap,
       << <<1, 2, S("Landuse Plan Analysis - aoi")>>,
          <<2, 2, S("File Name/Number:")>>, <<2, 3, S("file_number")>>,
          <<3, 2, S("Date Submitted:")>>, <<3, 3, S("")>>,
          <<4, 2, S("Submitter Name:")>>, <<4, 3, S("")>>,
          <<5, 2, S("Email:")>>, <<5, 3, S("")>>,
          <<6, 2, S("Ministry/Organization:")>>, <<6, 3, S("")>> >>)

\* the merged range of the title (lines 791, 983)
TitleMerge == Merge(1, 2, 1, 7)

\* the text of lines 827-828 and 1013-1014
NetAreaNote == S("*If spatially explicit leave areas are provided ...")

\* lup_ds.aoi[key]: reading a defaultdict(AOI) stores a new AOI under a key
\* that is absent (line 1266)
Touch(st, key) == IF key \in DOMAIN st THEN st ELSE Put(st, key, NewAOI)

\* the keys of aoi[p].assessment_units in insertion order: the order in which
\* the second cursor first stores them (lines 742, 745)
RECURSIVE UnitOrder(_, _, _, _)
UnitOrder(rows, lst, p, acc) ==
    IF rows = <<>> THEN acc
    ELSE LET row == Head(rows)
             k == Pass2Key(row)
             here == /\ ~k.skip
                     /\ KeepUnit(k.au, lst)
                     /\ \/ p = str_overall
                        \/ Truthy(AoiOf(row)) /\ AoiOf(row).v = p
                     /\ ~InList(k.au, acc)
         IN UnitOrder(Tail(rows), lst, p, IF here THEN Append(acc, k.au) ELSE acc)

\* for au in lup_ds.aoi[p].assessment_units
UnitsInOrder(st, p) ==
    IF Get(st, p, NewAOI).assessment_units = EmptyMap THEN <<>>
    ELSE UnitOrder(union_fc, lst_intersecting_aus, p, <<>>)

\* the total measure of a data row, taken from the partition of the sheet
RowTotalOfSheet(st, sheet, au) == Unit(st, sheet, au).total_area

\* the total measure of a data row (lines 1075-1076): of the Overall partition
RowTotal(st, sheet, au) == Unit(st, str_overall, au).total_area

\* the overlap measure of a data row (lines 1079-1080)
RowOverlap(st, sheet, au) == Unit(st, sheet, au).aoi_area

\* the second ratio cell, always a formula
AoiRatioAlways(type, num, den) == Formula(num, den)

\* the second ratio cell (lines 902-907, 1087-1092)
AoiRatio(type, num, den) ==
    IF type \notin {S("Point"), S("Polyline")} THEN Formula(num, den) ELSE NotApplicable

\* the first ratio cell with the total over the overlap
UnitRatioInverted(overlap, total) == Formula(total, overlap)

\* the first ratio cell (lines 898-899, 1083-1084)
UnitRatio(overlap, total) == Formula(overlap, total)

\* lines 1097-1157 for the fields from the j-th on, in row r of a sheet; acc
\* holds the cells, the schema and whether an exception was raised
RECURSIVE AttributeCells(_, _, _, _, _)
AttributeCells(acc, unit, j, r, lup_headers) ==
    IF j > Len(acc.schema) \/ acc.raised THEN acc
    ELSE LET ce_schema == acc.schema[j]
             col_index == 4 + IndexOf(lup_headers, ce_schema.label)
         IN IF ce_schema.name \notin DOMAIN unit.other_fields
            THEN AttributeCells(acc, unit, j + 1, r, lup_headers)
            ELSE LET v == unit.other_fields[ce_schema.name]
                     st == StyleValue(ce_schema.value_type, ce_schema.dict_values, v, NoStyle)
                 IN AttributeCells(
                       [acc EXCEPT !.cells = Put(acc.cells, <<r, col_index>>, v),
                                   !.schema[j].dict_values = st.dict_values,
                                   !.raised = (st.cell_style = "raised")],
                       unit, j + 1, r, lup_headers)

\* lines 1069-1159 for the units from the m-th on; the m-th is written in row
\* first + m - 1
RECURSIVE UnitRows(_, _, _, _, _, _, _)
UnitRows(acc, st, sheet, units, m, first, lup_headers) ==
    IF m > Len(units) \/ acc.raised THEN acc
    ELSE LET au == units[m]
             r == first + m - 1
             add_index == 4 + Len(acc.schema)
             unit == Unit(st, sheet, au)
             standard == WriteCells(acc.cells,
                << <<r, 4, S(unit.au_name)>>,
                   <<r, add_index + 1, N(RowTotal(st, sheet, au))>>,
                   <<r, add_index + 2, N(RowOverlap(st, sheet, au))>>,
                   <<r, add_index + 3, UnitRatio(Ref(add_index + 2, r), Ref(add_index + 1, r))>>,
                   <<r, add_index + 4,
                     AoiRatio(data_type, Ref(add_index + 2, r), Ref(3, 7))>> >>)
         IN UnitRows(AttributeCells([acc EXCEPT !.cells = standard], unit, 1, r, lup_headers),
                     st, sheet, units, m + 1, first, lup_headers)

\* the LU_Value objects the layout reads: the statistics, the schema and the
\* geometry type of the reported dataset, and those of the datasets the AOI
\* selected no feature of (lines 614-617), which have no statistics, no
\* ancillary fields and no geometry type
DsStats(acc, ds) == IF ds = DsName THEN acc.stats ELSE Get(acc.others, ds, EmptyMap)
SetDsStats(acc, ds, st) ==
    IF ds = DsName THEN [acc EXCEPT !.stats = st]
    ELSE [acc EXCEPT !.others = Put(acc.others, ds, st)]
DsSchema(acc, ds) == IF ds = DsName THEN acc.schema ELSE <<>>
DsType(ds) == IF ds = DsName THEN data_type ELSE None

\* the dataset sub-header, written when the category has several datasets
SubHeaderWhenSeveral(datasets, ds, r) ==
    IF Len(datasets) > 1 THEN << <<r, 3, S(ds)>> >> ELSE <<>>

\* the dataset sub-header (line 1045)
SubHeader(datasets, ds, r) == << <<r, 3, S(ds)>> >>

\* the marker written over the column headers
MarkerRowOverHeaders(header_row) == header_row

\* the row of the marker: i_row after line 1064
MarkerRow(header_row) == header_row + 1

\* lines 1038-1169 for the k-th dataset of a category, from row acc.i_row on
DatasetBlock(acc, sheet, datasets, k) ==
    LET ds == datasets[k]
        i_row == acc.i_row
        st1 == Touch(DsStats(acc, ds), sheet)
        units == UnitsInOrder(st1, sheet)
        ds_merge_count == IF Len(units) = 0 THEN 1 ELSE Len(units)
        schema == DsSchema(acc, ds)
        lup_headers == <<standard_headers(DsType(ds))[1]>>
                         \o [j \in 1..Len(schema) |-> schema[j].label]
                         \o Tail(standard_headers(DsType(ds)))
        column_length == Len(lup_headers)
        headed == WriteCells(acc.cells,
                     SubHeader(datasets, ds, i_row)
                     \o [j \in 1..Len(lup_headers) |->
                            <<i_row, 4 + IndexOf(lup_headers, lup_headers[j]),
                              S(lup_headers[j])>>])
        rows == UnitRows([cells |-> headed, schema |-> schema, raised |-> FALSE],
                         st1, sheet, units, 1, i_row + 1, lup_headers)
        marker == MarkerRow(i_row)
        touched == SetDsStats(acc, ds, st1)
    IN [touched EXCEPT
          !.cells = IF units = <<>> THEN Put(rows.cells, <<marker, 4>>, NoOverlap(ds))
                    ELSE rows.cells,
          !.merged = acc.merged
                       \cup {Merge(i_row, 3, i_row + ds_merge_count, 3)}
                       \cup (IF units = <<>>
                             THEN {Merge(marker, 4, marker, 4 + column_length - 1)}
                             ELSE {}),
          !.schema = IF ds = DsName THEN rows.schema ELSE acc.schema,
          !.raised = rows.raised,
          !.i_row = i_row + 1 + ds_merge_count + 1]

\* the loop of line 1038 from the k-th dataset on
RECURSIVE DatasetBlocks(_, _, _, _)
DatasetBlocks(acc, sheet, datasets, k) ==
    IF k > Len(datasets) \/ acc.raised THEN acc
    ELSE DatasetBlocks(DatasetBlock(acc, sheet, datasets, k), sheet, datasets, k + 1)

\* num_fields of lines 1030-1031
RECURSIVE NumFields(_, _)
NumFields(acc, datasets) ==
    IF datasets = <<>> THEN 0
    ELSE LET rest == NumFields(acc, Tail(datasets))
             here == Len(DsSchema(acc, Head(datasets)))
         IN IF here > rest THEN here ELSE rest

\* the loop of line 1020 from the c-th category on: the category header
\* (lines 1026-1035) and the blocks of its datasets
RECURSIVE CategoryBlocks(_, _, _)
CategoryBlocks(acc, sheet, c) ==
    IF c > Len(dict_lup_values) \/ acc.raised THEN acc
    ELSE LET lup == dict_lup_values[c]
             i_row == acc.i_row
             end_col == 2 + Len(standard_poly_headers) + NumFields(acc, lup.datasets) + 1
             headed == [acc EXCEPT
                          !.cells = Put(acc.cells, <<i_row, 2>>, S(lup.lup)),
                          !.merged = acc.merged \cup {Merge(i_row, 2, i_row, end_col)},
                          !.i_row = i_row + 1]
         IN CategoryBlocks(DatasetBlocks(headed, sheet, lup.datasets, 1), sheet, c + 1)

\* lines 975-1207: the sheet of the partition `sheet`
PartitionSheet(sheet, st, schema, others) ==
    LET top == WriteCells(TitleBlock,
                  << <<7, 2, S("Net AOI Area (ha)*:")>>,
                     <<7, 3, N(DictGet(dict_aoi_area, sheet))>>,
                     <<7, 4, NetAreaNote>> >>)
        blocks == CategoryBlocks([cells |-> top,
                                  merged |-> {TitleMerge, Merge(7, 4, 7, 8)},
                                  stats |-> st, schema |-> schema, others |-> others,
                                  raised |-> FALSE, i_row |-> 9],
                                 sheet, 1)
    IN [cells |-> blocks.cells,
        merged |-> blocks.merged,
        stats |-> blocks.stats,
        schema |-> blocks.schema,
        others |-> blocks.others,
        raised |-> blocks.raised]

\* f'{ds} - {lup_ds.data_type}' (line 852)
DatasetType(ds, type) == [t |-> "dataset - type", ds |-> ds, type |-> type]

\* lines 870-876: the sum of a measure over the units of a partition
RECURSIVE SumUnits(_, _, _, _)
SumUnits(st, p, units, field) ==
    IF units = <<>> THEN 0
    ELSE Unit(st, p, Head(units))[field] + SumUnits(st, p, Tail(units), field)

\* the rows of a category counted for its datasets alone
CategoryRowCountOfOne(datasets, lst_aois) == Len(lst_aois)

\* row_count of line 844
CategoryRowCount(datasets, lst_aois) == Len(datasets) * Len(lst_aois)

\* lines 850-910 for the dataset ds and the keys of dict_aoi_area from the
\* k-th on, the k-th written in row acc.i_row; aoi_row is the row of the
\* anchor of 'AOI Overall'
RECURSIVE SummaryRows(_, _, _, _)
SummaryRows(acc, ds, k, aoi_row) ==
    LET lst_aois == DictKeys(dict_aoi_area)
    IN IF k > Len(lst_aois) THEN acc
       ELSE LET p == lst_aois[k]
                r == acc.i_row
                st1 == Touch(DsStats(acc, ds), p)
                units == UnitsInOrder(st1, p)
                ds_value == IF p = str_overall THEN DatasetType(ds, DsType(ds)) ELSE S(p)
                named == Put(acc.cells, <<r, 3>>, ds_value)
                cells ==
                    IF Len(units) = 0 THEN Put(named, <<r, 4>>, NoOverlap(ds))
                    ELSE WriteCells(named,
                           << <<r, 4, N(Len(units))>>,
                              <<r, 5, N(SumUnits(st1, str_overall, units, "total_area"))>>,
                              <<r, 6, N(SumUnits(st1, p, units, "aoi_area"))>>,
                              <<r, 7, UnitRatio(Ref(6, r), Ref(5, r))>>,
                              <<r, 8, AoiRatio(DsType(ds), Ref(6, r),
                                               Ref(3, aoi_row + IndexOf(lst_aois, p)))>> >>)
                touched == SetDsStats(acc, ds, st1)
            IN SummaryRows([touched EXCEPT
                              !.cells = cells,
                              !.merged = IF Len(units) = 0
                                         THEN acc.merged \cup {Merge(r, 4, r, 8)}
                                         ELSE acc.merged,
                              !.i_row = r + 1],
                           ds, k + 1, aoi_row)

\* the loop of line 848 from the k-th dataset of a category on
RECURSIVE SummaryDatasets(_, _, _, _)
SummaryDatasets(acc, datasets, k, aoi_row) ==
    IF k > Len(datasets) THEN acc
    ELSE SummaryDatasets(SummaryRows(acc, datasets[k], 1, aoi_row), datasets, k + 1, aoi_row)

\* the loop of line 839 from the c-th category on
RECURSIVE SummaryCategories(_, _, _)
SummaryCategories(acc, c, aoi_row) ==
    IF c > Len(dict_lup_values) THEN acc
    ELSE LET lup == dict_lup_values[c]
             i_row == acc.i_row
             row_count == CategoryRowCount(lup.datasets, DictKeys(dict_aoi_area))
             headed == [acc EXCEPT
                          !.cells = Put(acc.cells, <<i_row, 2>>, S(lup.lup)),
                          !.merged = acc.merged
                                       \cup {Merge(i_row, 2, i_row + row_count - 1, 2)}]
         IN SummaryCategories(SummaryDatasets(headed, lup.datasets, 1, aoi_row),
                              c + 1, aoi_row)

\* write_summary (lines 777-925); aoi_row is bound only when 'AOI Overall' is
\* a key of dict_aoi_area, and line 827 raises when it is not
SummarySheet(st, others) ==
    LET lst_aois == DictKeys(dict_aoi_area)
        n == Len(lst_aois)
        anchors == WriteCells(TitleBlock,
                      [k \in 1..n |->
                          <<6 + k, 2, IF lst_aois[k] = str_overall
                                      THEN S("Net AOI Area (ha)*:") ELSE S(lst_aois[k])>>]
                      \o [k \in 1..n |-> <<6 + k, 3, N(dict_aoi_area[k].val)>>])
        bound == InList(str_overall, lst_aois)
        aoi_row == 7 + IndexOf(lst_aois, str_overall)
        lup_headers == <<"Category", "Dataset - Type">> \o summary_headers
        headed == WriteCells(anchors,
                     << <<aoi_row, 4, NetAreaNote>> >>
                     \o [j \in 1..Len(lup_headers) |->
                            <<9 + n, 2 + IndexOf(lup_headers, lup_headers[j]),
                              S(lup_headers[j])>>])
        body == SummaryCategories(
                   [cells |-> headed,
                    merged |-> {TitleMerge, Merge(aoi_row, 4, aoi_row + n - 1, 9)},
                    stats |-> st, others |-> others, i_row |-> 10 + n],
                   1, aoi_row)
    IN IF ~bound
       THEN [cells |-> anchors, merged |-> {TitleMerge}, stats |-> st, others |-> others,
             raised |-> TRUE]
       ELSE [cells |-> body.cells, merged |-> body.merged, stats |-> body.stats,
             others |-> body.others, raised |-> FALSE]

(***************************************************************************)
(* The run from the reading of the schema to the end of the process        *)
(***************************************************************************)
Workbook(sheets) == [sheets |-> sheets]
Sheet(title, cells, merged) == [title |-> title, cells |-> cells, merged |-> merged]

\* a usable row of the 'LUP Indicators' sheet (lines 228-242)
LupRow(category, dataset_name) == [CATEGORY |-> category, DATASET_NAME |-> dataset_name]

\* the sheet with the reported dataset alone
OneDataset == <<LupRow(LupName, DsName)>>

\* the sheets with several datasets: a second dataset of the same category,
\* a dataset of a second category, and both with the categories interleaved
LupTables ==
    {<<LupRow(LupName, DsName), LupRow(LupName, "Lakes")>>,
     <<LupRow("Wildlife", "Habitat"), LupRow(LupName, DsName)>>,
     <<LupRow(LupName, "Lakes"), LupRow("Wildlife", "Habitat"), LupRow(LupName, DsName)>>}

\* self.dict_lup_values[row.CATEGORY][row.DATASET_NAME] = lup_value (line 281)
RECURSIVE SetDataset(_, _, _)
SetDataset(d, category, dataset_name) ==
    IF d = <<>> THEN <<[lup |-> category, datasets |-> <<dataset_name>>]>>
    ELSE IF Head(d).lup = category
         THEN <<[lup |-> category,
                 datasets |-> IF InList(dataset_name, Head(d).datasets)
                              THEN Head(d).datasets
                              ELSE Append(Head(d).datasets, dataset_name)]>> \o Tail(d)
         ELSE <<Head(d)>> \o SetDataset(Tail(d), category, dataset_name)

\* the loop of line 228 over the rows from the k-th on
RECURSIVE DictLupValues(_, _, _)
DictLupValues(d, df, k) ==
    IF k > Len(df) THEN d
    ELSE DictLupValues(SetDataset(d, df[k].CATEGORY, df[k].DATASET_NAME), df, k + 1)

\* LU_Value.aoi of the datasets of the sheet other than the reported one
OtherAoi(df) ==
    [ds \in {df[k].DATASET_NAME : k \in 1..Len(df)} \ {DsName} |-> LUValueAoi(EmptyMap)]

\* the id and assessment unit fields of the dataset's row of 'LUP Indicators'
\* (lines 245-247): neither, either one, or both
GivenFields ==
    {[id_fields |-> <<>>, assess_fields |-> <<>>],
     [id_fields |-> <<"DISTRICT">>, assess_fields |-> <<>>],
     [id_fields |-> <<>>, assess_fields |-> <<"DISTRICT">>],
     [id_fields |-> <<"DISTRICT">>, assess_fields |-> <<"BLOCK">>]}

\* the parameters of a run: the geometry type of the dataset among the types
\* given, the AOI field, and the state of the schema workbook
RunInit(types) ==
    /\ \E aoi_field \in {"#", "REGION"} :
          fld_aoi = IF aoi_field # "#" THEN S(aoi_field) ELSE None
    /\ ds_type \in types
    /\ union_fc = <<>>
    /\ pc = "union"
    /\ cur = 1
    /\ lst_intersecting_aus = <<>>
    /\ bl_no_rows = TRUE
    /\ aoi = LUValueAoi(EmptyMap)
    /\ keys1 = <<>>
    /\ keys2 = <<>>
    /\ run = 1
    /\ prev_aoi = EmptyMap
    /\ SchemaInit
    /\ app_pc = "init"
    /\ xls_schema \in SchemaStates
    /\ exit_status = None
    /\ dict_lup_values = <<>>
    /\ lup_aoi = EmptyMap
    /\ other_fields_schema = <<>>
    /\ dict_aoi_area = <<>>
    /\ aoi_total = 0
    /\ fc_net_aoi = <<>>
    /\ data_type = None
    /\ warned = FALSE
    /\ lst_sheets = <<>>
    /\ wb = None
    /\ xls_output = None
    /\ completed = <<>>
    /\ failed_at = 0
    /\ stats_done = EmptyMap

\* a run that reports one dataset, with every way to give its fields
InitReport ==
    /\ \E given \in GivenFields : LUValue(given.id_fields, given.assess_fields)
    /\ lup_df = OneDataset
    /\ RunInit({"Polygon", "Polyline", "Point"})

\* a run over each of the 'LUP Indicators' sheets with several datasets, the
\* reported dataset having the id field DISTRICT and polygons or points
InitLayout ==
    /\ LUValue(<<"DISTRICT">>, <<>>)
    /\ lup_df \in LupTables
    /\ RunInit({"Polygon", "Point"})

\* LUP_Overlaps.__init__ (lines 217-294): the two tables are read, or the
\* process ends by sys.exit()
ReadSchema ==
    /\ app_pc = "init"
    /\ IF SchemaHalts(xls_schema)
       THEN /\ app_pc' = "exited"
            /\ exit_status' = ExitStatus(None)
            /\ UNCHANGED <<dict_lup_values, lup_aoi, other_fields_schema>>
       ELSE /\ app_pc' = "setup_aoi"
            /\ dict_lup_values' = DictLupValues(<<>>, lup_df, 1)
            /\ lup_aoi' = OtherAoi(lup_df)
            /\ other_fields_schema' \in ReportSchemas
            /\ UNCHANGED exit_status
    /\ UNCHANGED <<aggVars, schemaVars, tableVars, dict_aoi_area, aoi_total, fc_net_aoi, data_type, warned,
                   lst_sheets, wb, xls_output, completed, failed_at, stats_done>>

\* setup_aoi (lines 380-414)
SetupAoi ==
    /\ app_pc = "setup_aoi"
    /\ \E features \in AoiFeatures :
          /\ fc_net_aoi' = features
          /\ aoi_total' = AoiTotal(aoi_total, features)
          /\ dict_aoi_area' = AoiAreas(dict_aoi_area, features)
    /\ app_pc' = "overlay_values"
    /\ UNCHANGED <<aggVars, schemaVars, tableVars, exit_status, dict_lup_values, lup_aoi,
                   other_fields_schema, data_type, warned, lst_sheets, wb, xls_output,
                   completed, failed_at, stats_done>>

\* overlay_values for the dataset: no feature of it is selected by the AOI
\* (lines 612-617)
SkipDataset ==
    /\ app_pc = "overlay_values"
    /\ warned' = TRUE
    /\ stats_done' = aoi
    /\ app_pc' = "write_excel"
    /\ UNCHANGED <<aggVars, schemaVars, tableVars, exit_status, dict_lup_values, lup_aoi,
                   other_fields_schema, dict_aoi_area, aoi_total, fc_net_aoi, data_type, lst_sheets, wb, xls_output,
                   completed, failed_at>>

\* overlay_values for the dataset: union_fc is made and read by the two
\* cursors (lines 619-774)
OverlayValues ==
    /\ app_pc = "overlay_values"
    /\ dict_aoi_area # <<>>
    /\ \E rows \in RowSeqs(ReportRows, MaxRecs) :
          /\ union_fc' = rows
          /\ lst_intersecting_aus' = Pass1All(<<>>, rows)
          /\ aoi' = Pass2All(aoi, rows, lst_intersecting_aus')
          /\ stats_done' = aoi'
          /\ bl_no_rows' = (rows = <<>>)
          /\ warned' = (rows = <<>>)
          /\ cur' = Len(rows) + 1
    /\ data_type' = S(ds_type)
    /\ pc' = "done"
    /\ app_pc' = "write_excel"
    /\ UNCHANGED <<valueVars, fld_aoi, ds_type, keys1, keys2, run,
                   prev_aoi, schemaVars, tableVars, exit_status, dict_lup_values, lup_aoi,
                   other_fields_schema, dict_aoi_area, aoi_total, fc_net_aoi, lst_sheets, wb, xls_output,
                   completed, failed_at>>

\* lst_sheets with the test of line 959 left out
SheetListAlways(d) == <<str_summary>> \o DictKeys(d)

\* lines 956-960
SheetList(d) == <<str_summary>> \o (IF Len(DictKeys(d)) > 1 THEN DictKeys(d) ELSE <<>>)

\* write_excel up to its loop (lines 939-960)
OpenWorkbook ==
    /\ app_pc = "write_excel"
    /\ wb' = Workbook(<<>>)
    /\ xls_output' = None
    /\ lst_sheets' = SheetList(dict_aoi_area)
    /\ app_pc' = "sheets"
    /\ UNCHANGED <<aggVars, schemaVars, tableVars, exit_status, dict_lup_values, lup_aoi,
                   other_fields_schema, dict_aoi_area, aoi_total, fc_net_aoi, data_type, warned, completed,
                   failed_at, stats_done>>

\* the file at xls_output after the handler of lines 1209-1213, were the
\* workbook not saved there
UnsavedOnFailure(book, file) == file

\* line 1212
SavedOnFailure(book, file) == book

\* one iteration of the loop of write_excel (lines 964-1207) and, when it
\* raises, the handler of lines 1209-1213
EmitSheet ==
    /\ app_pc = "sheets"
    /\ Len(wb.sheets) < Len(lst_sheets)
    /\ LET k == Len(wb.sheets) + 1
           sheet == lst_sheets[k]
           Written(res, ws) ==
               /\ wb' = Workbook(Append(wb.sheets, ws))
               /\ aoi' = res.stats
               /\ lup_aoi' = res.others
               /\ other_fields_schema' = res.schema
               /\ IF res.raised
                  THEN /\ xls_output' = SavedOnFailure(wb', xls_output)
                       /\ failed_at' = k
                       /\ app_pc' = "exited"
                       /\ exit_status' = ExitStatus(None)
                       /\ UNCHANGED completed
                  ELSE /\ completed' = Append(completed, ws)
                       /\ UNCHANGED <<xls_output, failed_at, app_pc, exit_status>>
           Laid(res) == Written(res, Sheet(sheet, res.cells, res.merged))
       IN Laid(IF sheet = str_summary
               THEN SummarySheet(aoi, lup_aoi) @@ [schema |-> other_fields_schema]
               ELSE PartitionSheet(sheet, aoi, other_fields_schema, lup_aoi))
    /\ UNCHANGED <<valueVars, fld_aoi, ds_type, union_fc, pc, cur,
                   lst_intersecting_aus, bl_no_rows, keys1, keys2, run, prev_aoi,
                   schemaVars, tableVars, dict_lup_values, dict_aoi_area, aoi_total, fc_net_aoi, data_type,
                   warned, lst_sheets, stats_done>>

\* lines 1215-1216
SaveWorkbook ==
    /\ app_pc = "sheets"
    /\ Len(wb.sheets) = Len(lst_sheets)
    /\ xls_output' = wb
    /\ app_pc' = "del"
    /\ UNCHANGED <<aggVars, schemaVars, tableVars, exit_status, dict_lup_values, lup_aoi,
                   other_fields_schema, dict_aoi_area, aoi_total, fc_net_aoi, data_type, warned, lst_sheets, wb,
                   completed, failed_at, stats_done>>

\* run_app returns (lines 45-47) and the script ends
EndRun ==
    /\ app_pc = "del"
    /\ app_pc' = "exited"
    /\ exit_status' = ExitStatus(None)
    /\ UNCHANGED <<aggVars, schemaVars, tableVars, dict_lup_values, lup_aoi, other_fields_schema,
                   dict_aoi_area, aoi_total, fc_net_aoi, data_type, warned, lst_sheets, wb, xls_output, completed,
                   failed_at, stats_done>>

NextReport ==
    \/ ReadSchema
    \/ SetupAoi
    \/ SkipDataset
    \/ OverlayValues
    \/ OpenWorkbook
    \/ EmitSheet
    \/ SaveWorkbook
    \/ EndRun

SpecReport == InitReport /\ [][NextReport]_vars

SpecLayout == InitLayout /\ [][NextReport]_vars

(***************************************************************************)
(* What the claims about the aggregation speak of                          *)
(***************************************************************************)
\* the rows the second cursor has processed
Processed == IF pc = "pass2" THEN cur - 1 ELSE IF pc = "done" THEN Len(union_fc) ELSE 0

RECURSIVE SumOver(_, _)
SumOver(f, set) ==
    IF set = {} THEN 0
    ELSE LET x == CHOOSE y \in set : TRUE IN f[x] + SumOver(f, set \ {x})

\* the measure of each row: hectares of a polygon, metres of a line, 1 for a point
Measure ==
    [k \in 1..Len(union_fc) |->
        IF ds_type = "Point" THEN 1
        ELSE IF ds_type = "Polyline" THEN union_fc[k]["SHAPE@LENGTH"].v
        ELSE union_fc[k]["SHAPE@AREA"].v \div 10000]

\* the unit key of a row as the specification states it: the non-empty,
\* non-null id values in declared order, joined by a blank
Blank(x) == x = None \/ x = S("")
ExpectedKey(row) ==
    IF id_fields = <<>> THEN Key("All Units")
    ELSE IF id_fields = <<"DISTRICT">>
    THEN (IF Blank(row["DISTRICT"]) THEN NoKey ELSE Key(row["DISTRICT"].v))
    ELSE CASE Blank(row["DISTRICT"]) /\ Blank(row["BLOCK"]) -> NoKey
           [] ~Blank(row["DISTRICT"]) /\ Blank(row["BLOCK"]) -> Key(row["DISTRICT"].v)
           [] Blank(row["DISTRICT"]) /\ ~Blank(row["BLOCK"]) -> Key(row["BLOCK"].v)
           [] OTHER -> Key(row["DISTRICT"].v \o " " \o row["BLOCK"].v)

\* the membership indicators of a row: a feature id is positive when present
AoiMember(row) == row[fld_id_aoi].t = "num" /\ row[fld_id_aoi].v > 0
DatasetMember(row) == row[fld_id_lu].t = "num" /\ row[fld_id_lu].v > 0

\* the processed rows of unit au, and those among them of partition p
RowsOfUnit(au) == {k \in 1..Processed : ExpectedKey(union_fc[k]) = Key(au)}
InPartition(k, p) ==
    \/ p = str_overall
    \/ Truthy(fld_aoi) /\ union_fc[k][fld_aoi.v] = S(p)
UnitsOf(p) == IF p \in DOMAIN aoi THEN aoi[p].assessment_units ELSE EmptyMap
\* the unit has a row in the AOI, among all rows of union_fc
HasAoiRow(au) ==
    \E k \in 1..Len(union_fc) : ExpectedKey(union_fc[k]) = Key(au) /\ AoiMember(union_fc[k])
NamedPartitions == {"P1", "P2"}

(* C1: for every unit kept by the membership filter, total_area of the unit
   in the Overall partition is the sum of the measures of all its rows,
   whatever their membership flags; and with an AOI field configured each
   row's measure is also added to the unit's total_area in the partition
   named by the row's AOI field value (and in no other partition). *)
C1_TotalMeasure ==
    /\ \A au \in DOMAIN UnitsOf(str_overall) :
          UnitsOf(str_overall)[au].total_area = SumOver(Measure, RowsOfUnit(au))
    /\ \A p \in NamedPartitions : \A au \in DOMAIN UnitsOf(str_overall) :
          LET mine == {k \in RowsOfUnit(au) : InPartition(k, p)}
          IN /\ mine # {} => au \in DOMAIN UnitsOf(p)
             /\ au \in DOMAIN UnitsOf(p) =>
                   UnitsOf(p)[au].total_area = SumOver(Measure, mine)
    /\ DOMAIN aoi \subseteq {str_overall} \cup NamedPartitions
    /\ ~Truthy(fld_aoi) => DOMAIN aoi \subseteq {str_overall}

\* a kept unit has a row outside the AOI and a row in a named partition
C1_Witness ==
    /\ pc = "done"
    /\ \E au \in DOMAIN UnitsOf(str_overall) :
          /\ \E k \in RowsOfUnit(au) : ~AoiMember(union_fc[k])
          /\ au \in DOMAIN UnitsOf("P2")
          /\ UnitsOf("P2")[au].total_area < UnitsOf(str_overall)[au].total_area

(* C2: a row adds its measure to aoi_area of its unit, and has its ancillary
   values captured, iff both membership indicators are true; a row of the
   AOI outside the dataset adds to the partition's total_area and to the
   unit's total_area only.  So aoi_area of a unit is the sum of the measures
   of its rows with both indicators true, in the Overall partition and in
   the partition of the row. *)
C2_OverlapMeasure ==
    \A p \in DOMAIN aoi :
        /\ aoi[p].total_area =
              SumOver(Measure, {k \in 1..Processed :
                                  /\ ~ExpectedKey(union_fc[k]).skip
                                  /\ AoiMember(union_fc[k])
                                  /\ InPartition(k, p)})
        /\ \A au \in DOMAIN UnitsOf(p) :
              LET both == {k \in RowsOfUnit(au) :
                             /\ AoiMember(union_fc[k])
                             /\ DatasetMember(union_fc[k])
                             /\ InPartition(k, p)}
                  last == CHOOSE k \in both : \A j \in both : j <= k
                  u == UnitsOf(p)[au]
              IN /\ u.aoi_area = SumOver(Measure, both)
                 /\ both = {} => u.other_fields = EmptyMap
                 /\ both # {} =>
                       /\ DOMAIN u.other_fields = {"RISK"}
                       /\ u.other_fields["RISK"] =
                             IF union_fc[last]["RISK"] = None THEN S("")
                             ELSE union_fc[last]["RISK"]

\* a unit has a row of the AOI outside the dataset and a row inside both
C2_Witness ==
    /\ pc = "done"
    /\ \E au \in DOMAIN UnitsOf(str_overall) :
          /\ \E k \in RowsOfUnit(au) : AoiMember(union_fc[k]) /\ ~DatasetMember(union_fc[k])
          /\ UnitsOf(str_overall)[au].aoi_area > 0
          /\ UnitsOf(str_overall)[au].aoi_area < aoi[str_overall].total_area
          /\ UnitsOf(str_overall)[au].other_fields["RISK"] = S("high")

(* C3: with id fields configured, a unit key is in the Overall partition
   after the aggregation iff one of its rows has the AOI-membership
   indicator true; a unit whose rows all lie outside the AOI never appears,
   in any state. *)
C3_UnitPresence ==
    id_fields # <<>> =>
        /\ \A au \in DOMAIN UnitsOf(str_overall) : HasAoiRow(au)
        /\ pc = "done" =>
              \A k \in 1..Len(union_fc) :
                  LET key == ExpectedKey(union_fc[k])
                  IN ~key.skip /\ HasAoiRow(key.au) => key.au \in DOMAIN UnitsOf(str_overall)

\* one unit is present and another, scanned by the second cursor, is not
C3_Witness ==
    /\ pc = "done"
    /\ id_fields # <<>>
    /\ DOMAIN UnitsOf(str_overall) # {}
    /\ \E k \in 1..Len(union_fc) :
          /\ ~ExpectedKey(union_fc[k]).skip
          /\ ExpectedKey(union_fc[k]).au \notin DOMAIN UnitsOf(str_overall)

(* C4: in every state of the aggregation, for every partition and every
   unit in it, aoi_area <= total_area (the measures are non-negative). *)
C4_OverlapWithinTotal ==
    \A p \in DOMAIN aoi : \A au \in DOMAIN aoi[p].assessment_units :
        aoi[p].assessment_units[au].aoi_area <= aoi[p].assessment_units[au].total_area

\* in a named partition a unit overlaps with part of its measure
C4_Witness ==
    \E p \in DOMAIN aoi \ {str_overall} : \E au \in DOMAIN aoi[p].assessment_units :
        /\ 0 < aoi[p].assessment_units[au].aoi_area
        /\ aoi[p].assessment_units[au].aoi_area < aoi[p].assessment_units[au].total_area

(* C5: the aggregation run again over the same rows by a freshly
   initialised engine yields the same statistics: the same partition keys,
   unit keys, total_area, aoi_area, names and captured values. *)
C5_Idempotent == run > 1 => aoi = prev_aoi

\* the second engine has aggregated rows with overlap and captured values
C5_Witness ==
    /\ run = 2
    /\ \E p \in DOMAIN aoi \ {str_overall} : \E au \in DOMAIN aoi[p].assessment_units :
          /\ aoi[p].assessment_units[au].aoi_area > 0
          /\ aoi[p].assessment_units[au].other_fields["RISK"] = S("high")
          /\ aoi[str_overall].assessment_units[au].total_area > aoi[p].assessment_units[au].aoi_area

(* C6: both cursors build the unit key of a row from the non-empty,
   non-null id values in declared order (DISTRICT "N" with an empty BLOCK
   gives "N"), both skip a row without such a value, and without id fields
   every row belongs to "All Units" and is never filtered out. *)
C6_UnitKey ==
    /\ id_fields # <<>> =>
          /\ \A k \in 1..Len(keys1) : keys1[k] = ExpectedKey(union_fc[k])
          /\ \A k \in 1..Len(keys2) : keys2[k] = ExpectedKey(union_fc[k])
    /\ \A k \in 1..Len(keys2) :
          id_fields = <<"DISTRICT", "BLOCK">> /\ union_fc[k]["DISTRICT"] = S("N")
             /\ union_fc[k]["BLOCK"] = S("") => keys2[k] = Key("N")
    /\ id_fields = <<>> =>
          /\ \A k \in 1..Len(keys2) : keys2[k] = Key("All Units")
          /\ Processed > 0 =>
                /\ DOMAIN UnitsOf(str_overall) = {"All Units"}
                /\ UnitsOf(str_overall)["All Units"].total_area =
                      SumOver(Measure, 1..Processed)

\* the second cursor has built "N" from an empty BLOCK and skipped a row
C6_Witness ==
    /\ pc = "done"
    /\ id_fields = <<"DISTRICT", "BLOCK">>
    /\ \E k \in 1..Len(keys2) : keys2[k] = Key("N") /\ union_fc[k]["BLOCK"] = S("")
    /\ \E k \in 1..Len(keys2) : keys2[k] = NoKey /\ keys1[k] = NoKey

(***************************************************************************)
(* What the claims about Range rules speak of                              *)
(***************************************************************************)
\* the rule cells "<10", "10-20" and ">=20"
CellA == <<"<", "1", "0">>
CellB == <<"1", "0", "-", "2", "0">>
CellC == <<">", "=", "2", "0">>
\* the rule cells ">=25%", "-5-10", "0.5-1.2" and "0-10"
CellPercent == <<">", "=", "2", "5", "%">>
CellNegative == <<"-", "5", "-", "1", "0">>
CellDecimal == <<"0", ".", "5", "-", "1", ".", "2">>
CellZero == <<"0", "-", "1", "0">>

\* the keys of the rules in declared order
Keys(rules) == [k \in 1..Len(rules) |-> rules[k].key]

\* a non-empty value has been styled with the row's rules
Classified == value_type = "Range" /\ parse_pc = "layout" /\ cell_style = "rule"

\* the rule set A, B, C was read in this order and a value was styled with it
RuleSetABC == Classified /\ Keys(dict_values) = <<CellA, CellB, CellC>>

\* acceptance as the text states it: a bound is present when it is not None
Accepts(rule, v) ==
    IF rule.range_low # None /\ rule.range_high # None
    THEN rule.range_low.v <= v.v /\ v.v <= rule.range_high.v
    ELSE IF rule.range_low = None /\ rule.range_high # None
    THEN \/ rule.range_operator = S("<") /\ v.v < rule.range_high.v
         \/ rule.range_operator = S("<=") /\ v.v <= rule.range_high.v
    ELSE IF rule.range_low # None /\ rule.range_high = None
    THEN \/ rule.range_operator = S(">") /\ v.v > rule.range_low.v
         \/ rule.range_operator = S(">=") /\ v.v >= rule.range_low.v
    ELSE FALSE

\* the rules of the row that accept the styled value
Accepting == {k \in 1..Len(dict_values) : Accepts(dict_values[k], ce_value)}

\* the bound an operator cell writes, as a fraction when it carries a percent sign
WrittenBound(c) == N(IF c.pct THEN c.val \div 100 ELSE c.val)

(* C7: with the rules "<10", "10-20", ">=20" read in this order, 9.99 is   *)
(* styled by "<10", 10 and 15.5 by "10-20", and 20 by "10-20" as well: the *)
(* closed range accepts 20 before ">=20" is tried.                         *)
C7_RangeExample ==
    RuleSetABC =>
        /\ ce_value = N(99900) => val_style.key = CellA
        /\ ce_value = N(10 * Scale) => val_style.key = CellB
        /\ ce_value = N(155000) => val_style.key = CellB
        /\ ce_value = N(20 * Scale) => val_style.key = CellB

\* C7 as stated: 20 is styled by ">=20"
C7_Original ==
    RuleSetABC =>
        /\ ce_value = N(99900) => val_style.key = CellA
        /\ ce_value = N(10 * Scale) => val_style.key = CellB
        /\ ce_value = N(155000) => val_style.key = CellB
        /\ ce_value = N(20 * Scale) => val_style.key = CellC

C7_Witness == RuleSetABC /\ ce_value = N(20 * Scale) /\ val_style.key = CellB

(* C8: a styled value takes the first rule, in declared order, that        *)
(* accepts it: low <= v <= high with both bounds, the rule's own operator  *)
(* against the only bound otherwise, for every bound the parser produces.  *)
C8_FirstAccepting ==
    (Classified /\ Accepting # {}) =>
        val_style = dict_values[CHOOSE k \in Accepting : \A j \in Accepting : k <= j]

\* the rules "0-10", ">=20" style 5 by ">=20": the bound 0.0 counts as absent
C8_Witness ==
    /\ Classified
    /\ Keys(dict_values) = <<CellZero, CellC>>
    /\ dict_values[1].range_low = N(0)
    /\ ce_value = N(5 * Scale)
    /\ val_style.key = CellC

(* C9: an operator cell yields the operator found in the order <=, >=, <,  *)
(* >, the rest of the text as the bound on the operator's side (high for   *)
(* < and <=, low for > and >=), the other bound None, a bound with % over  *)
(* 100; ">=25%" yields low 0.25, operator '>=', high None; and reading     *)
(* such a cell raises nothing.                                             *)
C9_OperatorCells ==
    /\ \A k \in 1..Len(dict_values) : \A c \in OpCells :
          dict_values[k].key = c.text =>
             /\ dict_values[k].range_operator = S(c.op)
             /\ c.op \in {"<", "<="} =>
                   /\ dict_values[k].range_high = WrittenBound(c)
                   /\ dict_values[k].range_low = None
             /\ c.op \in {">", ">="} =>
                   /\ dict_values[k].range_low = WrittenBound(c)
                   /\ dict_values[k].range_high = None
    /\ \A k \in 1..Len(dict_values) :
          dict_values[k].key = CellPercent =>
              dict_values[k] = ValueSchema(CellPercent, N(2500), None, S(">="))
    /\ parse_pc = "crashed" => cell_value \notin {c.text : c \in OpCells}

C9_Witness ==
    \E k \in 1..Len(dict_values) :
        dict_values[k] = ValueSchema(CellPercent, N(2500), None, S(">="))

(* C10: a cell that matches the low-high pattern yields the number before  *)
(* the middle dash as low and the number after it as high, negative and    *)
(* decimal numbers included ("-5-10" gives -5 and 10, "0.5-1.2" gives 0.5  *)
(* and 1.2), with no operator.                                             *)
C10_LowHighCells ==
    \A k \in 1..Len(dict_values) : \A c \in RangeCells :
        dict_values[k].key = c.text =>
            dict_values[k] = ValueSchema(c.text, N(c.low), N(c.high), None)

\* "-5-10" is stored with no low bound and the high bound 5
C10_Witness ==
    \E k \in 1..Len(dict_values) :
        dict_values[k] = ValueSchema(CellNegative, None, N(5 * Scale), None)

(***************************************************************************)
(* What the claims about Discrete rules speak of                           *)
(***************************************************************************)
\* the keys of the rules read from the row's cells
ParsedKeys == {dict_values[k].key : k \in {j \in 1..Len(dict_values) :
                                              dict_values[j].style_font = "cell"}}

\* a non-empty value that equals no rule key of a Discrete field was looked up
MissingKeyLookedUp ==
    /\ value_type = "Discrete"
    /\ parse_pc \in {"layout", "aborted"}
    /\ Truthy(ce_value)
    /\ ce_value.v \notin ParsedKeys

(* C11: looking up a value that equals no rule key of a Discrete field     *)
(* yields no rule: the field has no rule under that value afterwards and   *)
(* the ValueSchema selected is none made for it.                           *)
C11_MissingKeyYieldsNoRule ==
    MissingKeyLookedUp =>
        /\ \A k \in 1..Len(dict_values) : dict_values[k].key # ce_value.v
        /\ val_style.key # ce_value.v

\* the value 'high' looked up among the rule "low" alone is given a new
\* ValueSchema, which the field keeps as a rule
C11_Witness ==
    /\ MissingKeyLookedUp
    /\ ce_value = Txt(<<"h", "i", "g", "h">>)
    /\ Keys(dict_values) = << <<"l", "o", "w">>, <<"h", "i", "g", "h">> >>
    /\ val_style = DefaultValueSchema(<<"h", "i", "g", "h">>)
    /\ cell_style = "raised"

(***************************************************************************)
(* What the claims about the run and the report speak of                   *)
(***************************************************************************)
\* reading one of the two schema tables fails
SchemaReadFails == xls_schema \in {"no indicator sheet", "no required column",
                                   "no additional sheet"}

\* no method after __init__ has run: no AOI area, no statistics, no workbook
NothingRun ==
    /\ dict_aoi_area = <<>>
    /\ aoi_total = 0
    /\ fc_net_aoi = <<>>
    /\ pc = "union" /\ union_fc = <<>> /\ aoi = EmptyMap /\ data_type = None
    /\ lst_sheets = <<>> /\ wb = None /\ xls_output = None

(* C12: when reading either schema table fails, the run halts during       *)
(* initialisation: it is at __init__ or has exited, setup_aoi,             *)
(* overlay_values and write_excel have not run, and there is no report     *)
(* file.                                                                   *)
C12_SchemaFailureHalts ==
    SchemaReadFails => app_pc \in {"init", "exited"} /\ NothingRun

\* the run has exited on a schema without its 'Additional Fields' sheet
C12_Witness ==
    /\ xls_schema = "no additional sheet"
    /\ app_pc = "exited"
    /\ NothingRun

\* overlay_values has returned
OverlayDone == app_pc \in {"write_excel", "sheets", "del"} \/ wb # None

\* no row of the dataset's overlay lies in the AOI
NoAoiRecords == OverlayDone /\ \A k \in 1..Len(union_fc) : ~InAoi(union_fc[k])

\* the sheet holds the marker 'No overlap with <ds>'
HasMarker(sheet, ds) == \E c \in DOMAIN sheet.cells : sheet.cells[c] = NoOverlap(ds)

(* C13: a dataset whose overlay has no record in the AOI stays in the      *)
(* schema, aggregation has warned about it, and every sheet of the report  *)
(* (the summary sheet and each partition sheet) holds the marker           *)
(* 'No overlap with <dataset>'.                                            *)
C13_NoOverlapMarker ==
    NoAoiRecords =>
        /\ \E c \in 1..Len(dict_lup_values) : InList(DsName, dict_lup_values[c].datasets)
        /\ warned
        /\ \A k \in 1..Len(completed) : HasMarker(completed[k], DsName)

\* a dataset that no AOI feature selects is reported with the marker on the
\* summary sheet and on the sheets of 'AOI Overall', P1 and P2
C13_Witness ==
    /\ NoAoiRecords
    /\ warned
    /\ data_type = None
    /\ Len(completed) = 4
    /\ \A k \in 1..Len(completed) : HasMarker(completed[k], DsName)

\* write_excel has ended: by the save of line 1216 or by the handler of
\* lines 1209-1213
WriteExcelEnded == app_pc = "del" \/ failed_at > 0 \/ (app_pc = "exited" /\ wb # None)

(* C14: when the emission of sheet k of the sheet list raises, the         *)
(* workbook holds the sheets 1..k and none after k, and the file saved at  *)
(* the output path holds every sheet completed before k as it was          *)
(* completed; after write_excel the file exists, whether it ended by the   *)
(* save of the whole workbook or by the failure.                           *)
C14_PartialReportSaved ==
    /\ WriteExcelEnded => xls_output # None
    /\ app_pc = "del" => /\ failed_at = 0
                         /\ xls_output.sheets = completed
                         /\ Len(completed) = Len(lst_sheets)
    /\ failed_at > 0 =>
          /\ Len(wb.sheets) = failed_at
          /\ Len(completed) = failed_at - 1
          /\ xls_output # None
          /\ Len(xls_output.sheets) = failed_at
          /\ \A j \in 1..(failed_at - 1) : xls_output.sheets[j] = completed[j]
          /\ \A j \in 1..failed_at : xls_output.sheets[j].title = lst_sheets[j]

\* the sheet of 'AOI Overall', the second of four, raised on the value 'high'
\* of a Discrete field without that rule: the file holds the summary sheet as
\* completed and the unfinished sheet, and no sheet of P1 or P2
C14_Witness ==
    /\ failed_at = 2
    /\ lst_sheets = <<str_summary, str_overall, "P1", "P2">>
    /\ xls_output # None
    /\ Len(xls_output.sheets) = 2
    /\ xls_output.sheets[1] = completed[1]
    /\ xls_output.sheets[2].title = str_overall

\* the run has ended after all sheets were emitted and saved
EndedAfterSuccess == app_pc = "exited" /\ failed_at = 0 /\ wb # None

\* the run has ended in the handler of lines 1209-1213
EndedAfterFailure == app_pc = "exited" /\ failed_at > 0

(* C15: a run that ends after a failure while emitting a sheet has an exit *)
(* status different from the status of a run that ends after a complete    *)
(* report, which is 0.                                                     *)
C15_FailureExitStatus ==
    /\ EndedAfterSuccess => exit_status = N(0)
    /\ EndedAfterFailure => exit_status # None /\ exit_status # N(0)

\* the sheet of 'AOI Overall' raised, the partial workbook was saved and the
\* process ended with status 0
C15_Witness ==
    /\ EndedAfterFailure
    /\ failed_at = 2
    /\ xls_output = wb
    /\ exit_status = N(0)

\* the sheets of the partitions in the workbook
PartitionSheets == {wb.sheets[k] : k \in {j \in 1..Len(wb.sheets) :
                                            wb.sheets[j].title # str_summary}}

\* the rows of a partition sheet that hold a unit: those with a name in the
\* column of the assessment units, below the column headers
DataRows(sheet) == {c[1] : c \in {d \in DOMAIN sheet.cells :
                                     d[2] = 4 /\ d[1] > 10 /\ sheet.cells[d].t = "str"}}

\* the units of the sheet's partition, as aggregation left them
SheetUnits(sheet) == Get(stats_done, sheet.title, NewAOI).assessment_units

\* the units of a data row: those of the sheet's partition with the name the
\* row shows
UnitsOfRow(sheet, r) ==
    {au \in DOMAIN SheetUnits(sheet) : SheetUnits(sheet)[au].au_name = sheet.cells[<<r, 4>>].v}

\* the columns of the total and of the overlap measure on a partition sheet:
\* after the unit's name and the attribute columns
TotalColumn == 4 + Len(other_fields_schema) + 1
OverlapColumn == 4 + Len(other_fields_schema) + 2

(* C16: on every partition sheet each unit of the sheet's partition has a  *)
(* data row, and each data row holds the total measure of its unit in the  *)
(* Overall partition and the overlap measure of its unit in the partition  *)
(* of the sheet, as aggregation left them.                                 *)
C16_RowMeasures ==
    wb # None =>
      \A sheet \in PartitionSheets :
        /\ \A r \in DataRows(sheet) :
              /\ UnitsOfRow(sheet, r) # {}
              /\ \A au \in UnitsOfRow(sheet, r) :
                    /\ sheet.cells[<<r, TotalColumn>>] =
                          N(Unit(stats_done, str_overall, au).total_area)
                    /\ sheet.cells[<<r, OverlapColumn>>] =
                          N(Unit(stats_done, sheet.title, au).aoi_area)
        /\ (\E k \in 1..Len(completed) : completed[k] = sheet) =>
              \A au \in DOMAIN SheetUnits(sheet) :
                 \E r \in DataRows(sheet) : au \in UnitsOfRow(sheet, r)

\* the sheet of P1 holds the row of district N with the total 100 of the
\* Overall partition, not the 25 of P1, and the overlap 25
C16_Witness ==
    /\ wb # None
    /\ \E sheet \in PartitionSheets :
          /\ sheet.title = "P1"
          /\ DataRows(sheet) = {11}
          /\ UnitsOfRow(sheet, 11) = {"N"}
          /\ sheet.cells[<<11, TotalColumn>>] = N(100)
          /\ sheet.cells[<<11, OverlapColumn>>] = N(25)
          /\ Unit(stats_done, "P1", "N").total_area = 25

\* the summary sheet of the workbook, once made
SummarySheets == {wb.sheets[k] : k \in {j \in 1..Len(wb.sheets) :
                                          wb.sheets[j].title = str_summary}}

\* the rows of the summary sheet that hold measures: those with a number of
\* units
SummaryDataRows(sheet) == {c[1] : c \in {d \in DOMAIN sheet.cells :
                                            d[2] = 4 /\ sheet.cells[d].t = "num"}}

\* the partition of a row of the summary sheet: named in its third column,
\* where the row of 'AOI Overall' names the dataset and its type
PartitionOfRow(sheet, r) ==
    IF sheet.cells[<<r, 3>>].t = "str" THEN sheet.cells[<<r, 3>>].v ELSE str_overall

\* the cell a formula refers to
CellAt(sheet, ref) == sheet.cells[<<ref.row, ref.col>>]

\* the value of a formula over the cells of its sheet, in thousandths
Evaluate(sheet, f) == (CellAt(sheet, f.num).v * 1000) \div CellAt(sheet, f.den).v

\* the anchor cell holds the AOI total of partition p, under the label of p
IsAnchorOf(sheet, ref, p) ==
    /\ ref.col = 3
    /\ <<ref.row, 3>> \in DOMAIN sheet.cells
    /\ sheet.cells[<<ref.row, 3>>] = N(DictGet(dict_aoi_area, p))
    /\ InList(p, DictKeys(dict_aoi_area))
    /\ \/ sheet.title # str_summary /\ ref.row = 7
       \/ sheet.title = str_summary
          /\ sheet.cells[<<ref.row, 2>>] =
                (IF p = str_overall THEN S("Net AOI Area (ha)*:") ELSE S(p))

\* the two ratio cells of row r, given the columns of the total and of the
\* overlap measure
RatiosRefer(sheet, r, total, overlap, p) ==
    LET first == sheet.cells[<<r, overlap + 1>>]
        second == sheet.cells[<<r, overlap + 2>>]
    IN /\ first = Formula(Ref(overlap, r), Ref(total, r))
       /\ second.t = "formula" =>
             /\ second.num = Ref(overlap, r)
             /\ IsAnchorOf(sheet, second.den, p)
       /\ (/\ sheet.cells[<<r, total>>] = N(100)
           /\ sheet.cells[<<r, overlap>>] = N(25)
           /\ second.t = "formula"
           /\ DictGet(dict_aoi_area, p) = 200) =>
             /\ Evaluate(sheet, first) = 250
             /\ Evaluate(sheet, second) = 125

(* C17: in every data row, for 0, 1 or 2 attribute columns, the first      *)
(* ratio formula divides the cell of the row's overlap measure by the cell *)
(* of the row's total measure, and the second, where it is a formula,      *)
(* divides the overlap cell by the anchor cell that holds the AOI total of *)
(* the sheet's partition (on the summary sheet: of the row's partition);   *)
(* with total 100, overlap 25 and AOI total 200 they evaluate to 0.25 and  *)
(* 0.125.                                                                  *)
C17_RatioFormulas ==
    wb # None =>
      /\ \A sheet \in PartitionSheets : \A r \in DataRows(sheet) :
            RatiosRefer(sheet, r, TotalColumn, OverlapColumn, sheet.title)
      /\ \A sheet \in SummarySheets : \A r \in SummaryDataRows(sheet) :
            RatiosRefer(sheet, r, 5, 6, PartitionOfRow(sheet, r))

\* with the two attribute columns Risk and Trend the sheet of P1 holds total
\* 100 in column 7 and overlap 25 in column 8, the ratios 0.25 and 0.125 in
\* columns 9 and 10; the summary sheet holds the same ratios in its row of P1
C17_Witness ==
    /\ wb # None
    /\ Len(other_fields_schema) = 2
    /\ \E sheet \in PartitionSheets :
          /\ sheet.title = "P1"
          /\ DataRows(sheet) = {11}
          /\ sheet.cells[<<11, 7>>] = N(100)
          /\ sheet.cells[<<11, 8>>] = N(25)
          /\ sheet.cells[<<7, 3>>] = N(200)
          /\ sheet.cells[<<11, 9>>].t = "formula"
          /\ Evaluate(sheet, sheet.cells[<<11, 9>>]) = 250
          /\ sheet.cells[<<11, 10>>].t = "formula"
          /\ Evaluate(sheet, sheet.cells[<<11, 10>>]) = 125
    /\ \E sheet \in SummarySheets : \E r \in SummaryDataRows(sheet) :
          /\ PartitionOfRow(sheet, r) = "P1"
          /\ Evaluate(sheet, sheet.cells[<<r, 7>>]) = 250
          /\ sheet.cells[<<r, 8>>].t = "formula"
          /\ Evaluate(sheet, sheet.cells[<<r, 8>>]) = 125

\* the second ratio cell of row r, given the column of the overlap measure
SecondRatio(sheet, r, overlap) == sheet.cells[<<r, overlap + 2>>]

\* the second ratio cell is the marker for lines and points and a formula for
\* the other geometry types
MarkedByGeometry(cell) ==
    /\ cell = NotApplicable <=> ds_type \in {"Polyline", "Point"}
    /\ cell.t = "formula" <=> ds_type \notin {"Polyline", "Point"}

(* C18: in every data row of a partition sheet and of the summary sheet    *)
(* the second ratio cell is the text 'N/A' exactly when the geometry type  *)
(* of the dataset is line or point, and a formula otherwise.               *)
C18_NotApplicable ==
    wb # None =>
      /\ \A sheet \in PartitionSheets : \A r \in DataRows(sheet) :
            MarkedByGeometry(SecondRatio(sheet, r, OverlapColumn))
      /\ \A sheet \in SummarySheets : \A r \in SummaryDataRows(sheet) :
            MarkedByGeometry(SecondRatio(sheet, r, 6))

\* a line dataset: its row on the sheet of P1 and its rows on the summary
\* sheet end in 'N/A' after the first ratio formula
C18_Witness ==
    /\ wb # None
    /\ ds_type = "Polyline"
    /\ \E sheet \in PartitionSheets :
          /\ sheet.title = "P1"
          /\ DataRows(sheet) = {11}
          /\ sheet.cells[<<11, OverlapColumn + 1>>].t = "formula"
          /\ SecondRatio(sheet, 11, OverlapColumn) = NotApplicable
    /\ \E sheet \in SummarySheets :
          /\ SummaryDataRows(sheet) # {}
          /\ \A r \in SummaryDataRows(sheet) : SecondRatio(sheet, r, 6) = NotApplicable

\* the titles of the sheets of a workbook, in the order of their creation
Titles(book) == [k \in 1..Len(book.sheets) |-> book.sheets[k].title]

\* the sheets the statement names: the summary sheet, then one per partition
\* key in the order setup_aoi recorded them, when there is more than one key
ExpectedSheets ==
    IF Len(dict_aoi_area) > 1
    THEN <<str_summary>> \o [k \in 1..Len(dict_aoi_area) |-> dict_aoi_area[k].key]
    ELSE <<str_summary>>

(* C19: the sheets write_excel creates are the summary sheet followed by   *)
(* one sheet per partition key, in the order the keys were recorded, when  *)
(* more than one partition key exists, and the summary sheet alone         *)
(* otherwise: the workbook holds a prefix of that list while sheets are    *)
(* emitted and the whole list in the saved report.                         *)
C19_SheetList ==
    wb # None =>
      /\ Len(wb.sheets) <= Len(ExpectedSheets)
      /\ Titles(wb) = SubSeq(ExpectedSheets, 1, Len(wb.sheets))
      /\ app_pc = "del" => Titles(xls_output) = ExpectedSheets

\* an AOI with the REGION values P1 and P2: the saved report holds the
\* summary sheet and the sheets of 'AOI Overall', P1 and P2, in this order
C19_Witness ==
    /\ app_pc = "del"
    /\ DictKeys(dict_aoi_area) = <<str_overall, "P1", "P2">>
    /\ Titles(xls_output) = <<str_summary, str_overall, "P1", "P2">>

(* C20: the layout leaves the statistics of the dataset as aggregation     *)
(* left them: the same partition keys, the same unit keys in each          *)
(* partition, the same measures and captured attributes.                   *)
C20_LayoutReadsOnly ==
    wb # None => aoi = stats_done

\* a report of four sheets written over statistics that hold every partition
\* key: they are as aggregation left them
C20_Witness ==
    /\ app_pc = "del"
    /\ Len(lst_sheets) = 4
    /\ DOMAIN stats_done = {str_overall, "P1", "P2"}
    /\ aoi = stats_done

(***************************************************************************)
(* What the claims about the dataset object speak of                       *)
(***************************************************************************)
(* C21: in every state of the run the dataset object's fields stand in the *)
(* relation its constructor set up: when exactly one of the id and         *)
(* assessment unit lists was given empty, both are the list that was not;  *)
(* when both were given, they are as given; when both were empty, the      *)
(* dataset is marked as having no id.                                      *)
C21_FieldDefaults ==
    /\ (given_id_fields = <<>> /\ given_assess_fields # <<>>) =>
          id_fields = given_assess_fields /\ assessment_fields = given_assess_fields
    /\ (given_id_fields # <<>> /\ given_assess_fields = <<>>) =>
          id_fields = given_id_fields /\ assessment_fields = given_id_fields
    /\ (given_id_fields # <<>> /\ given_assess_fields # <<>>) =>
          id_fields = given_id_fields /\ assessment_fields = given_assess_fields
    /\ (given_id_fields = <<>> /\ given_assess_fields = <<>>) => no_id

\* a dataset given the assessment unit field DISTRICT alone has it as its id
\* field when its report has been written, and its unit is keyed by district
C21_Witness ==
    /\ given_id_fields = <<>>
    /\ given_assess_fields = <<"DISTRICT">>
    /\ id_fields = <<"DISTRICT">>
    /\ assessment_fields = <<"DISTRICT">>
    /\ ~no_id
    /\ app_pc = "del"
    /\ "N" \in DOMAIN Get(aoi, str_overall, NewAOI).assessment_units

(***************************************************************************)
(* What the claims about the fallback and malformed cells speak of         *)
(***************************************************************************)
\* a non-empty value has been put to the rules of a Range row
RangeValuePut ==
    /\ value_type = "Range"
    /\ parse_pc \in {"layout", "aborted"}
    /\ Truthy(ce_value)

(* C22: a non-empty value put to the rules of a Range field that no rule   *)
(* accepts is styled with the last rule of the field in declared order:    *)
(* the cell gets that rule's style, not the regular style, and no          *)
(* exception is raised.                                                    *)
C22_LastRuleFallback ==
    (RangeValuePut /\ Accepting = {}) =>
        /\ parse_pc = "layout"
        /\ cell_style = "rule"
        /\ val_style = dict_values[Len(dict_values)]

\* with the rules ">=20", "<10" the value 15.5 is styled by "<10"
C22_Witness ==
    /\ RangeValuePut
    /\ Keys(dict_values) = <<CellC, CellA>>
    /\ ce_value = N(155000)
    /\ Accepting = {}
    /\ cell_style = "rule"
    /\ val_style.key = CellA

\* the row's cell read last is one without range and without operator
MalformedRead == value_type = "Range" /\ col > 0 /\ cell_value = MalformedCell

(* C23: a Range rule cell without a low-high pattern and without an        *)
(* operator produces a rule whose low and high bounds are both undefined,  *)
(* whatever cells were read before it: reading it does not end the         *)
(* program, and the rule stored under its text has no bound and no         *)
(* operator.                                                               *)
C23_MalformedCell ==
    MalformedRead =>
        /\ parse_pc # "crashed"
        /\ \E k \in 1..Len(dict_values) :
              dict_values[k] = ValueSchema(MalformedCell, None, None, None)

\* after ">0", whose bound 0.0 counts as absent, the cell "n/a" is stored as
\* a rule without bounds
C23_Witness ==
    /\ MalformedRead
    /\ parse_pc = "schema"
    /\ Keys(dict_values) = << <<">", "0">>, MalformedCell >>
    /\ dict_values[2] = ValueSchema(MalformedCell, None, None, None)

(***************************************************************************)
(* What the claims about the blocks of a partition sheet speak of          *)
(***************************************************************************)
\* the datasets of the schema and the datasets of the category of one
AllDatasets ==
    UNION {Range(dict_lup_values[c].datasets) : c \in 1..Len(dict_lup_values)}
CategoryOf(ds) ==
    dict_lup_values[CHOOSE c \in 1..Len(dict_lup_values) :
                       InList(ds, dict_lup_values[c].datasets)]

\* the units of a dataset in a partition, in the statistics of the dataset
UnitsIn(ds, p) ==
    DOMAIN Get(IF ds = DsName THEN aoi ELSE Get(lup_aoi, ds, EmptyMap), p,
               NewAOI).assessment_units

\* the partition sheets whose emission has ended
EmittedPartitionSheets ==
    {completed[k] : k \in {j \in 1..Len(completed) : completed[j].title # str_summary}}

\* the rows of a sheet that hold the marker of a dataset
MarkerRows(sheet, ds) ==
    {d[1] : d \in {e \in DOMAIN sheet.cells : sheet.cells[e] = NoOverlap(ds)}}

\* row r of the sheet starts with the first column header in the first column
\* of a block and ends with the last one in the block's last column
IsHeaderRow(sheet, r, ds) ==
    LET width == Len(standard_poly_headers)
                   + Len(IF ds = DsName THEN other_fields_schema ELSE <<>>)
    IN /\ <<r, 4>> \in DOMAIN sheet.cells
       /\ sheet.cells[<<r, 4>>] = S("Assessment Unit")
       /\ <<r, 4 + width - 1>> \in DOMAIN sheet.cells
       /\ sheet.cells[<<r, 4 + width - 1>>] =
             S("% of AOI that Overlaps with Assessment Unit")

\* the marker of the dataset is in row r alone, merged across the columns of
\* the block, with nothing else in the row and nothing in the row below
SingleMarkerRow(sheet, r, ds) ==
    LET width == Len(standard_poly_headers)
                   + Len(IF ds = DsName THEN other_fields_schema ELSE <<>>)
    IN /\ MarkerRows(sheet, ds) = {r}
       /\ Merge(r, 4, r, 4 + width - 1) \in sheet.merged
       /\ \A d \in DOMAIN sheet.cells : d[1] = r => d[2] = 4
       /\ \A d \in DOMAIN sheet.cells : d[1] # r + 1

\* the rows of a sheet that hold the sub-header of a dataset
SubHeaderRows(sheet, ds) ==
    {d[1] : d \in {e \in DOMAIN sheet.cells : e[2] = 3 /\ e[1] > 7 /\ sheet.cells[e] = S(ds)}}

(* C24: on a partition sheet, a dataset whose partition has no assessment  *)
(* unit is rendered as its column-header row followed by a single "No      *)
(* overlap with {dataset}" marker row merged across the columns of the     *)
(* dataset, the marker row standing in place of the data rows: the         *)
(* column-header row is written for that dataset too.                      *)
C24_MarkerBelowHeaders ==
    \A sheet \in EmittedPartitionSheets : \A ds \in AllDatasets :
       UnitsIn(ds, sheet.title) = {} =>
          \E r \in MarkerRows(sheet, ds) :
             /\ SingleMarkerRow(sheet, r, ds)
             /\ IsHeaderRow(sheet, r - 1, ds)

\* the statement as it stands: the marker row is emitted instead of the
\* column-header row
C24_Original ==
    \A sheet \in EmittedPartitionSheets : \A ds \in AllDatasets :
       UnitsIn(ds, sheet.title) = {} =>
          \E r \in MarkerRows(sheet, ds) :
             /\ SingleMarkerRow(sheet, r, ds)
             /\ ~IsHeaderRow(sheet, r - 1, ds)

\* the sheet 'AOI Overall' of the datasets Streams and Lakes of one category:
\* two unit rows of Streams, then the headers and the marker of Lakes
C24_Witness ==
    \E sheet \in EmittedPartitionSheets :
       /\ sheet.title = str_overall
       /\ dict_lup_values = <<[lup |-> LupName, datasets |-> <<DsName, "Lakes">>]>>
       /\ Cardinality(UnitsIn(DsName, str_overall)) = 2
       /\ UnitsIn("Lakes", str_overall) = {}
       /\ MarkerRows(sheet, "Lakes") = {15}
       /\ IsHeaderRow(sheet, 14, "Lakes")
       /\ MarkerRows(sheet, DsName) = {}

(* C25: on a partition sheet the dataset sub-header is emitted for every   *)
(* dataset of every category, in the row of the dataset's column headers,  *)
(* whether the category has one dataset or several.                        *)
C25_SubHeaderAlways ==
    \A sheet \in EmittedPartitionSheets : \A ds \in AllDatasets :
       \E r \in SubHeaderRows(sheet, ds) :
          /\ SubHeaderRows(sheet, ds) = {r}
          /\ IsHeaderRow(sheet, r, ds)

\* the statement as it stands: the sub-header is emitted only when the
\* category has more than one dataset
C25_Original ==
    \A sheet \in EmittedPartitionSheets : \A ds \in AllDatasets :
       SubHeaderRows(sheet, ds) # {} <=> Len(CategoryOf(ds).datasets) > 1

\* a sheet of the categories Water (Lakes, Streams) and Wildlife (Habitat
\* alone): Habitat has its sub-header
C25_Witness ==
    \E sheet \in EmittedPartitionSheets :
       /\ Len(dict_lup_values) = 2
       /\ CategoryOf("Habitat").datasets = <<"Habitat">>
       /\ CategoryOf(DsName).datasets = <<"Lakes", DsName>>
       /\ SubHeaderRows(sheet, "Habitat") # {}
       /\ SubHeaderRows(sheet, DsName) # {}

\* the column headers of the reported dataset as the statement lists them:
\* the first standard header, the labels of the ancillary attributes in the
\* order of the schema, the other four standard headers in the wording of the
\* dataset's geometry
ExpectedHeaders ==
    LET standard == IF data_type = S("Point") THEN standard_point_headers
                    ELSE IF data_type = S("Polyline") THEN standard_line_headers
                    ELSE standard_poly_headers
    IN <<standard[1]>> \o [j \in 1..Len(other_fields_schema) |-> other_fields_schema[j].label]
         \o Tail(standard)

\* the cell of the sheet holds the value
Holds(sheet, r, c, value) == <<r, c>> \in DOMAIN sheet.cells /\ sheet.cells[<<r, c>>] = value

(* C26: the column-header row of the dataset holds the first standard      *)
(* header, the ancillary labels in schema order and the other four         *)
(* standard headers in the wording of the dataset's geometry, the k-th     *)
(* header in the k-th column of the block, and every ancillary value of a  *)
(* unit is written in the column under its own label: the j-th attribute   *)
(* in the j-th column after the unit's name.                               *)
C26_HeaderRow ==
    \A sheet \in EmittedPartitionSheets :
       /\ \A k \in 1..Len(ExpectedHeaders) : Holds(sheet, 10, 3 + k, S(ExpectedHeaders[k]))
       /\ \A r \in DataRows(sheet) : \A au \in UnitsOfRow(sheet, r) :
             \A j \in 1..Len(other_fields_schema) :
                other_fields_schema[j].name \in DOMAIN SheetUnits(sheet)[au].other_fields =>
                   Holds(sheet, r, 4 + j, SheetUnits(sheet)[au].other_fields[other_fields_schema[j].name])

\* a line dataset with the attributes labelled 'Risk' and 'Trend': the
\* headers in the length wording, 'high' under 'Risk' and 'up' under 'Trend'
C26_Witness ==
    \E sheet \in EmittedPartitionSheets :
       /\ data_type = S("Polyline")
       /\ Holds(sheet, 10, 4, S("Assessment Unit"))
       /\ Holds(sheet, 10, 5, S("Risk"))
       /\ Holds(sheet, 10, 6, S("Trend"))
       /\ Holds(sheet, 10, 7, S("Length (m) of Assessment Unit"))
       /\ Holds(sheet, 11, 5, S("high"))
       /\ Holds(sheet, 11, 6, S("up"))
       /\ \A k \in 1..Len(ExpectedHeaders) : Holds(sheet, 10, 3 + k, S(ExpectedHeaders[k]))

(***************************************************************************)
(* What the claim about the rows of the summary sheet speaks of            *)
(***************************************************************************)
\* the summary sheet, once its emission has ended
EmittedSummarySheets ==
    {completed[k] : k \in {j \in 1..Len(completed) : completed[j].title = str_summary}}

\* the number of datasets of the categories before the c-th
RECURSIVE DatasetsBefore(_)
DatasetsBefore(c) ==
    IF c = 1 THEN 0 ELSE DatasetsBefore(c - 1) + Len(dict_lup_values[c - 1].datasets)

\* the row of the triple of the c-th category, its k-th dataset and the p-th
\* partition, in the order category, dataset, partition from the first row
\* below the column headers
TripleRow(c, k, p) ==
    LET n == Len(dict_aoi_area)
    IN 10 + n + (DatasetsBefore(c) + (k - 1)) * n + (p - 1)

\* the rows of the table of a summary sheet: those that name a dataset or a
\* partition in the third column
TableRows(sheet) ==
    {d[1] : d \in {e \in DOMAIN sheet.cells : e[2] = 3 /\ e[1] >= 10 + Len(dict_aoi_area)}}

\* the measures row r shows for the dataset ds in the partition part
ShowsMeasures(sheet, r, ds, part) ==
    LET stats == IF ds = DsName THEN aoi ELSE Get(lup_aoi, ds, EmptyMap)
        units == UnitsIn(ds, part)
        totals == [au \in units |-> Unit(stats, str_overall, au).total_area]
        overlaps == [au \in units |-> Unit(stats, part, au).aoi_area]
    IN IF units = {} THEN Holds(sheet, r, 4, NoOverlap(ds))
       ELSE /\ Holds(sheet, r, 4, N(Cardinality(units)))
            /\ Holds(sheet, r, 5, N(SumOver(totals, units)))
            /\ Holds(sheet, r, 6, N(SumOver(overlaps, units)))

\* the merged ranges of the category column
CategoryMerges(sheet) ==
    {g \in sheet.merged : g.start_column = 2 /\ g.start_row >= 10 + Len(dict_aoi_area)}

(* C27: the summary sheet has exactly one row per (category, dataset,      *)
(* partition) triple, in the order category, dataset, partition; the row   *)
(* of a partition with units shows their number, the sum of their total    *)
(* measures and the sum of their overlap measures in the partition, and    *)
(* the row of a partition without units the marker; the merged cell of a   *)
(* category starts at the category's first row and spans the number of     *)
(* datasets times the number of partitions rows, ending before the first   *)
(* row of the next category.                                               *)
C27_SummaryRows ==
    \A sheet \in EmittedSummarySheets :
       LET n == Len(dict_aoi_area)
           cats == 1..Len(dict_lup_values)
       IN /\ TableRows(sheet) =
                UNION {{TripleRow(c, k, p) : k \in 1..Len(dict_lup_values[c].datasets),
                                             p \in 1..n} : c \in cats}
          /\ Cardinality(TableRows(sheet)) = DatasetsBefore(Len(dict_lup_values) + 1) * n
          /\ \A c \in cats : \A k \in 1..Len(dict_lup_values[c].datasets) : \A p \in 1..n :
                LET ds == dict_lup_values[c].datasets[k]
                    part == dict_aoi_area[p].key
                    r == TripleRow(c, k, p)
                IN /\ Holds(sheet, r, 3, IF part = str_overall
                                         THEN DatasetType(ds, IF ds = DsName THEN data_type
                                                              ELSE None)
                                         ELSE S(part))
                   /\ ShowsMeasures(sheet, r, ds, part)
          /\ \A c \in cats :
                LET first == TripleRow(c, 1, 1)
                    last == first + Len(dict_lup_values[c].datasets) * n - 1
                IN /\ Holds(sheet, first, 2, S(dict_lup_values[c].lup))
                   /\ Merge(first, 2, last, 2) \in sheet.merged
                   /\ c < Len(dict_lup_values) => last < TripleRow(c + 1, 1, 1)
          /\ Cardinality(CategoryMerges(sheet)) = Len(dict_lup_values)

\* the categories Water (Lakes, Streams) and Wildlife (Habitat) with the
\* partitions AOI Overall, P1 and P2: nine rows from row 13, Water merged over
\* the rows 13 to 18 and Wildlife over 19 to 21; the row of Streams in AOI
\* Overall shows two units with the totals 50 and the overlaps 50
C27_Witness ==
    \E sheet \in EmittedSummarySheets :
       /\ Len(dict_lup_values) = 2
       /\ dict_lup_values[1].datasets = <<"Lakes", DsName>>
       /\ Len(dict_aoi_area) = 3
       /\ TableRows(sheet) = 13..21
       /\ Holds(sheet, 16, 4, N(2))
       /\ Holds(sheet, 16, 5, N(50))
       /\ Holds(sheet, 16, 6, N(50))
       /\ Holds(sheet, 13, 4, NoOverlap("Lakes"))
       /\ Merge(13, 2, 18, 2) \in sheet.merged
       /\ Merge(19, 2, 21, 2) \in sheet.merged
       /\ ds_type = "Polygon"

(***************************************************************************)
(* What the claims about the partitions during aggregation speak of        *)
(***************************************************************************)
\* the partitions of the statistics other than 'AOI Overall'
OtherPartitions == DOMAIN aoi \ {str_overall}

\* the processed rows that add to an overlap measure of partition p: rows
\* of a unit, in the AOI and in the dataset, of that partition
OverlapRows(p) ==
    {k \in 1..Processed : /\ ExpectedKey(union_fc[k]) # NoKey
                          /\ AoiMember(union_fc[k])
                          /\ DatasetMember(union_fc[k])
                          /\ InPartition(k, p)}

\* the sum of the overlap measures of the units of partition p
OverlapSum(p) ==
    SumOver([au \in DOMAIN UnitsOf(p) |-> UnitsOf(p)[au].aoi_area], DOMAIN UnitsOf(p))

(* C28: in every state of the aggregation, every unit of a partition other *)
(* than 'AOI Overall' is also a unit of 'AOI Overall', and its total       *)
(* measure and its overlap measure in the partition are at most those of   *)
(* the same unit in 'AOI Overall': the Overall total of a unit listed in a *)
(* partition exists.                                                       *)
C28_UnitsWithinOverall ==
    \A p \in OtherPartitions : \A au \in DOMAIN UnitsOf(p) :
       /\ str_overall \in DOMAIN aoi
       /\ au \in DOMAIN UnitsOf(str_overall)
       /\ UnitsOf(p)[au].total_area <= UnitsOf(str_overall)[au].total_area
       /\ UnitsOf(p)[au].aoi_area <= UnitsOf(str_overall)[au].aoi_area

\* a unit of P1 whose total and overlap in 'AOI Overall' are larger than in
\* P1, while the second cursor is still reading
C28_Witness ==
    /\ pc = "pass2"
    /\ \E au \in DOMAIN UnitsOf("P1") :
          /\ au \in DOMAIN UnitsOf(str_overall)
          /\ 0 < UnitsOf("P1")[au].aoi_area
          /\ UnitsOf("P1")[au].aoi_area < UnitsOf(str_overall)[au].aoi_area
          /\ UnitsOf("P1")[au].total_area < UnitsOf(str_overall)[au].total_area

(* C29: in every state of the aggregation, the total_area of each          *)
(* partition is at least the sum of the overlap measures of the            *)
(* partition's units, and its total_count is at least the number of        *)
(* records that added to an overlap measure in it.                         *)
C29_PartitionTotals ==
    \A p \in DOMAIN aoi :
       /\ aoi[p].total_area >= OverlapSum(p)
       /\ aoi[p].total_count >= Cardinality(OverlapRows(p))

\* a partition with an overlap, whose total is larger than the sum of its
\* overlaps and whose count is larger than the number of overlapping records:
\* one of its two AOI records is not in the dataset
C29_Witness ==
    \E p \in DOMAIN aoi :
       /\ OverlapSum(p) > 0
       /\ aoi[p].total_area > OverlapSum(p)
       /\ Cardinality(OverlapRows(p)) = 1
       /\ aoi[p].total_count = 2

(***************************************************************************)
(* What the claim about the AOI areas speaks of                            *)
(***************************************************************************)
\* setup_aoi has returned
SetupDone ==
    \/ app_pc \in {"overlay_values", "write_excel", "sheets", "del"}
    \/ app_pc = "exited" /\ ~SchemaHalts(xls_schema)

\* the areas of the features of the net AOI, in hectares, and their sum
FeatureAreas == [k \in 1..Len(fc_net_aoi) |-> fc_net_aoi[k].area \div 10000]
FeatureAreaSum == SumOver(FeatureAreas, 1..Len(fc_net_aoi))

\* the areas recorded under the keys other than 'AOI Overall', and their sum
OtherKeys == {k \in 1..Len(dict_aoi_area) : dict_aoi_area[k].key # str_overall}
OtherAreaSum == SumOver([k \in 1..Len(dict_aoi_area) |-> dict_aoi_area[k].val], OtherKeys)

(* C30: after setup_aoi the area recorded under 'AOI Overall' equals       *)
(* aoi_total and the sum of the areas of the features of the net AOI; with *)
(* an AOI field, no feature of which names 'AOI Overall', it also equals   *)
(* the sum of the areas recorded under the other keys; and 'AOI Overall'   *)
(* is the first key recorded.                                              *)
C30_OverallArea ==
    SetupDone =>
       /\ DictGet(dict_aoi_area, str_overall) = aoi_total
       /\ aoi_total = FeatureAreaSum
       /\ (/\ Truthy(fld_aoi)
           /\ \A k \in 1..Len(fc_net_aoi) : fc_net_aoi[k].part # str_overall) =>
             DictGet(dict_aoi_area, str_overall) = OtherAreaSum
       /\ \A k \in 1..Len(dict_aoi_area) :
             dict_aoi_area[k].key = str_overall <=> k = 1

\* the features of 200 ha in P1, 100 ha in P2 and 50 ha in P1: 350 under
\* 'AOI Overall', the first key, 250 under P1 and 100 under P2
C30_Witness ==
    /\ SetupDone
    /\ Len(fc_net_aoi) = 3
    /\ aoi_total = 350
    /\ dict_aoi_area = <<[key |-> str_overall, val |-> 350], [key |-> "P1", val |-> 250],
                         [key |-> "P2", val |-> 100]>>
    /\ wb # None
====
